---------------------------- MODULE Spec2Model ----------------------------
(***************************************************************************)
(* Transcript Control: the content script's request/response bridge        *)
(* (src/content.js) and the page script's extractor and message listener   *)
(* (src/transcript.js), as one state machine of the window's event loop.   *)
(*                                                                         *)
(* Every action is one task of the event loop together with the microtasks *)
(* it leaves behind (promise continuations run before the next task).      *)
(* Text is a sequence of UTF-16 code units; an optional object field is    *)
(* None (absent) or Some(value).                                           *)
(***************************************************************************)
EXTENDS Integers, Sequences, FiniteSets, TLC

(***************************************************************************)
(* Bounds of the model.                                                    *)
(***************************************************************************)
\* messages posted on the window in one behaviour by a click (a requestTranscript
\* call) or by a script that is not the extension's
MaxPosts == 2
\* the clock runs over the points k * Step + j, k <= MaxEpochs, j <= MaxJitter
MaxEpochs == 2
MaxJitter == 1
\* the event loop runs a due timer task at most this many ms late
TimerSlack == 1
\* the longest track list selectTrack is called with
MaxTracks == 3
\* the most entries a payload parseTranscriptXml is called with carries
MaxEntries == 3
\* the most re-injection timers (content.js:238) pending at once
MaxTimers == 2

(***************************************************************************)
(* Program constants.                                                      *)
(***************************************************************************)
\* content.js:120  setTimeout(..., 15000)
TIMEOUT_MS == 15000

\* the caption fetch aborted after half the time
FetchTimeoutHalved == TIMEOUT_MS \div 2

\* transcript.js:249  AbortSignal.timeout(15000)
FETCH_TIMEOUT_MS == 15000

Step == TIMEOUT_MS \div 2
TimeGrid == {k * Step + j : k \in 0..MaxEpochs, j \in 0..MaxJitter}
MaxNow == MaxEpochs * Step + MaxJitter

(***************************************************************************)
(* JavaScript values.                                                      *)
(***************************************************************************)
None == <<>>
Some(x) == <<x>>

JsNull == [tag |-> "null", str |-> <<>>]
JsUndefined == [tag |-> "undefined", str |-> <<>>]
JsString(s) == [tag |-> "string", str |-> s]

\* ToBoolean of a value that is null, undefined or a string
Truthy(v) == v.tag = "string" /\ v.str # <<>>

\* reading an object's optional string field
Field(opt) == IF opt = None THEN JsUndefined ELSE JsString(opt[1])

\* ToBoolean of an optional error-message field (message texts are TLA+ strings)
ErrorTruthy(opt) == opt # None /\ opt[1] # ""

(***************************************************************************)
(* Text: a JavaScript string is the sequence of its UTF-16 code units.     *)
(***************************************************************************)
\* the printable ASCII characters, code units 32..126, in order (code unit 96 by name)
Ascii == <<
    " ", "!", "\"", "#", "$", "%", "&", "'", "(", ")", "*", "+", ",", "-", ".", "/",
    "0", "1", "2", "3", "4", "5", "6", "7", "8", "9", ":", ";", "<", "=", ">", "?",
    "@", "A", "B", "C", "D", "E", "F", "G", "H", "I", "J", "K", "L", "M", "N", "O",
    "P", "Q", "R", "S", "T", "U", "V", "W", "X", "Y", "Z", "[", "\\", "]", "^", "_",
    "grave", "a", "b", "c", "d", "e", "f", "g", "h", "i", "j", "k", "l", "m", "n", "o",
    "p", "q", "r", "s", "t", "u", "v", "w", "x", "y", "z", "{", "|", "}", "~" >>

\* the code unit of a character written as a one-character string
Ord(c) == IF c = "\n" THEN 10 ELSE 31 + (CHOOSE i \in 1..Len(Ascii) : Ascii[i] = c)

\* the string whose characters are written one by one
Str(cs) == [i \in 1..Len(cs) |-> Ord(cs[i])]

CodeUnits == 0..65535
\* the character classes \d and [0-9a-fA-F]
Digits == 48..57
HexDigits == Digits \cup (65..70) \cup (97..102)
HexValue(c) == IF c \in Digits THEN c - 48 ELSE IF c >= 97 THEN c - 87 ELSE c - 55

\* WhiteSpace and LineTerminator code units, as String.prototype.trim strips them
IsWhitespace(c) ==
    c \in {9, 10, 11, 12, 13, 32, 160, 5760, 8232, 8233, 8239, 8287, 12288, 65279}
        \cup (8192..8202)

\* s.substring(i - 1): the characters of s from position i on
Drop(s, i) == IF i > Len(s) THEN <<>> ELSE SubSeq(s, i, Len(s))

\* s.startsWith(pat, i - 1)
StartsWithAt(s, pat, i) ==
    /\ i + Len(pat) - 1 <= Len(s)
    /\ \A k \in 1..Len(pat) : s[i + k - 1] = pat[k]

\* the first position >= i of s whose character is not in the class P; Len(s) + 1
\* when there is none (the end of a greedy run of P+ or P* starting at i)
RECURSIVE RunEnd(_, _, _)
RunEnd(s, i, P) ==
    IF i > Len(s) \/ s[i] \notin P THEN i ELSE RunEnd(s, i + 1, P)

\* Number(digits), base 10
RECURSIVE DecValue(_)
DecValue(ds) ==
    IF ds = <<>> THEN 0
    ELSE 10 * DecValue(SubSeq(ds, 1, Len(ds) - 1)) + (ds[Len(ds)] - 48)

\* parseInt(digits, 16)
RECURSIVE HexNumber(_)
HexNumber(ds) ==
    IF ds = <<>> THEN 0
    ELSE 16 * HexNumber(SubSeq(ds, 1, Len(ds) - 1)) + HexValue(ds[Len(ds)])

\* n.toString() of a non-negative integer
RECURSIVE ToDigits(_)
ToDigits(n) ==
    IF n < 10 THEN <<48 + n>> ELSE Append(ToDigits(n \div 10), 48 + (n % 10))

\* String.fromCharCode(n): one code unit, ToUint16(n)
FromCharCode(n) == <<n % 65536>>

\* s.split(pat).join(rep): every occurrence of pat, leftmost first, not overlapping
RECURSIVE SplitJoin(_, _, _)
SplitJoin(s, pat, rep) ==
    IF s = <<>> THEN <<>>
    ELSE IF StartsWithAt(s, pat, 1)
         THEN rep \o SplitJoin(Drop(s, Len(pat) + 1), pat, rep)
         ELSE <<s[1]>> \o SplitJoin(Drop(s, 2), pat, rep)

\* transcript.js:268-279: the entity table, in the order it is applied
Entities == <<
    <<Str(<<"&", "a", "m", "p", ";">>), Str(<<"&">>)>>,
    <<Str(<<"&", "l", "t", ";">>), Str(<<"<">>)>>,
    <<Str(<<"&", "g", "t", ";">>), Str(<<">">>)>>,
    <<Str(<<"&", "q", "u", "o", "t", ";">>), Str(<<"\"">>)>>,
    <<Str(<<"&", "#", "3", "9", ";">>), Str(<<"'">>)>>,
    <<Str(<<"&", "a", "p", "o", "s", ";">>), Str(<<"'">>)>>,
    <<Str(<<"&", "#", "x", "2", "7", ";">>), Str(<<"'">>)>>,
    <<Str(<<"&", "#", "x", "2", "F", ";">>), Str(<<"/">>)>>,
    <<Str(<<"&", "#", "4", "7", ";">>), Str(<<"/">>)>>,
    <<Str(<<"&", "n", "b", "s", "p", ";">>), Str(<<" ">>)>> >>

\* transcript.js:282-284: the loop over the table, from entry k on
RECURSIVE DecodeNamed(_, _)
DecodeNamed(s, k) ==
    IF k > Len(Entities) THEN s
    ELSE DecodeNamed(SplitJoin(s, Entities[k][1], Entities[k][2]), k + 1)

\* the literal parts of the patterns and templates of transcript.js:287, 288, 301,
\* 316 and 337-339
AmpHash == Str(<<"&", "#">>)
AmpHashX == Str(<<"&", "#", "x">>)
Semicolon == Ord(";")
Quote == Ord("\"")
Colon == Str(<<":">>)
POpen == Str(<<"<", "p", " ", "t", "=", "\"">>)
PClose == Str(<<"<", "/", "p", ">">>)
BracketOpen == Str(<<"[">>)
BracketCloseSpace == Str(<<"]", " ">>)

\* decimal entities left as they are
DecodeDecimalSkipped(s) == s

\* transcript.js:287  replace(/&#(\d+);/g, fromCharCode(dec))
RECURSIVE DecodeDecimal(_)
DecodeDecimal(s) ==
    IF s = <<>> THEN <<>>
    ELSE LET e == RunEnd(s, 3, Digits)
         IN IF StartsWithAt(s, AmpHash, 1) /\ e > 3
                /\ e <= Len(s) /\ s[e] = Semicolon
            THEN FromCharCode(DecValue(SubSeq(s, 3, e - 1))) \o DecodeDecimal(Drop(s, e + 1))
            ELSE <<s[1]>> \o DecodeDecimal(Drop(s, 2))

\* transcript.js:288  replace(/&#x([0-9a-fA-F]+);/g, fromCharCode(parseInt(hex, 16)))
RECURSIVE DecodeHex(_)
DecodeHex(s) ==
    IF s = <<>> THEN <<>>
    ELSE LET e == RunEnd(s, 4, HexDigits)
         IN IF StartsWithAt(s, AmpHashX, 1) /\ e > 4
                /\ e <= Len(s) /\ s[e] = Semicolon
            THEN FromCharCode(HexNumber(SubSeq(s, 4, e - 1))) \o DecodeHex(Drop(s, e + 1))
            ELSE <<s[1]>> \o DecodeHex(Drop(s, 2))

\* transcript.js:267-291
decodeHtmlEntities(text) == DecodeHex(DecodeDecimal(DecodeNamed(text, 1)))

\* NewlinesToSpaces replacing nothing
NewlinesKept(s) == s

\* transcript.js:311  replace(/\n/g, ' ')
NewlinesToSpaces(s) == [i \in 1..Len(s) |-> IF s[i] = 10 THEN 32 ELSE s[i]]

\* String.prototype.trim
RECURSIVE TrimStart(_)
TrimStart(s) ==
    IF s # <<>> /\ IsWhitespace(s[1]) THEN TrimStart(Drop(s, 2)) ELSE s
RECURSIVE TrimEnd(_)
TrimEnd(s) ==
    IF s # <<>> /\ IsWhitespace(s[Len(s)]) THEN TrimEnd(SubSeq(s, 1, Len(s) - 1)) ELSE s
Trim(s) == TrimEnd(TrimStart(s))

\* a pad that pads nothing
padNothing(n) == ToDigits(n)

\* transcript.js:334  n.toString().padStart(2, '0')
pad(n) == IF n < 10 THEN <<48>> \o ToDigits(n) ELSE ToDigits(n)

\* transcript.js:328-340
formatTimestamp(ms) ==
    LET totalSeconds == ms \div 1000
        hours == totalSeconds \div 3600
        minutes == (totalSeconds % 3600) \div 60
        seconds == totalSeconds % 60
    IN IF hours > 0
       THEN ToDigits(hours) \o Colon \o pad(minutes) \o Colon \o pad(seconds)
       ELSE pad(minutes) \o Colon \o pad(seconds)

\* the character classes [^>] and [^<]
NotGt == CodeUnits \ {62}
NotLt == CodeUnits \ {60}

\* transcript.js:301  /<p t="(\d+)"[^>]*>([^<]*)<\/p>/ tried at position i of xml:
\* <<TRUE, the digits, the text, the position after the match>> or <<FALSE>>
MatchP(xml, i) ==
    LET d == i + Len(POpen)
        dEnd == RunEnd(xml, d, Digits)
        aEnd == RunEnd(xml, dEnd + 1, NotGt)
        tEnd == RunEnd(xml, aEnd + 1, NotLt)
    IN IF /\ StartsWithAt(xml, POpen, i)
          /\ dEnd > d
          /\ dEnd <= Len(xml) /\ xml[dEnd] = Quote
          /\ aEnd <= Len(xml)
          /\ StartsWithAt(xml, PClose, tEnd)
       THEN <<TRUE, SubSeq(xml, d, dEnd - 1), SubSeq(xml, aEnd + 1, tEnd - 1),
              tEnd + Len(PClose)>>
       ELSE <<FALSE>>

\* EntryLines without the test of transcript.js:314
EntryLinesKeepsBlank(startMs, rawText) ==
    LET text == Trim(NewlinesToSpaces(decodeHtmlEntities(rawText)))
    IN << BracketOpen \o formatTimestamp(startMs) \o BracketCloseSpace \o text >>

\* transcript.js:310-317: the line an entry contributes, <<>> when its text is empty
EntryLines(startMs, rawText) ==
    LET text == Trim(NewlinesToSpaces(decodeHtmlEntities(rawText)))
    IN IF text # <<>>
       THEN << BracketOpen \o formatTimestamp(startMs) \o BracketCloseSpace \o text >>
       ELSE <<>>

\* XmlLines putting each line before the ones already pushed
RECURSIVE XmlLinesUnshifted(_, _)
XmlLinesUnshifted(xml, i) ==
    IF i > Len(xml) THEN <<>>
    ELSE LET m == MatchP(xml, i)
         IN IF m[1]
            THEN XmlLinesUnshifted(xml, m[4]) \o EntryLines(DecValue(m[2]), m[3])
            ELSE XmlLinesUnshifted(xml, i + 1)

\* transcript.js:305-318: the regex.exec loop from position i, the lines it pushes
RECURSIVE XmlLines(_, _)
XmlLines(xml, i) ==
    IF i > Len(xml) THEN <<>>
    ELSE LET m == MatchP(xml, i)
         IN IF m[1]
            THEN EntryLines(DecValue(m[2]), m[3]) \o XmlLines(xml, m[4])
            ELSE XmlLines(xml, i + 1)

\* lines.join('\n')
RECURSIVE JoinLines(_)
JoinLines(lines) ==
    IF lines = <<>> THEN <<>>
    ELSE IF Len(lines) = 1 THEN lines[1]
    ELSE lines[1] \o <<10>> \o JoinLines(Tail(lines))

\* transcript.js:299-321
parseTranscriptXml(xml) == JoinLines(XmlLines(xml, 1))

\* transcript.js:78-81  event.segs.map(seg => seg.utf8 || '').join('')
RECURSIVE SegText(_)
SegText(segs) ==
    IF segs = <<>> THEN <<>>
    ELSE (IF segs[1].utf8 = None THEN <<>> ELSE segs[1].utf8[1]) \o SegText(Tail(segs))

\* JsonEventLines taking an event without segs for one without text
JsonEventLinesNoSkip(event) ==
    LET text == IF event.segs = None THEN <<>> ELSE Trim(SegText(event.segs[1]))
    IN << BracketOpen \o formatTimestamp(event.tStartMs) \o BracketCloseSpace \o text >>

\* transcript.js:73-86: the line an event contributes, <<>> when it has no segs or
\* its text is empty
JsonEventLines(event) ==
    IF event.segs = None THEN <<>>
    ELSE LET text == Trim(SegText(event.segs[1]))
         IN IF text # <<>>
            THEN << BracketOpen \o formatTimestamp(event.tStartMs)
                    \o BracketCloseSpace \o text >>
            ELSE <<>>

\* transcript.js:70-86: the lines pushed for events, in order
RECURSIVE JsonLines(_)
JsonLines(events) ==
    IF events = <<>> THEN <<>>
    ELSE JsonEventLines(events[1]) \o JsonLines(Tail(events))

\* transcript.js:69-89; data.events is None when the payload has no events field
parseTranscriptJson(data) ==
    JoinLines(JsonLines(IF data.events = None THEN <<>> ELSE data.events[1]))

\* the character class [^\n]
NotNewline == CodeUnits \ {10}

\* transcript.js:375  transcript.split('\n')
RECURSIVE Split(_)
Split(s) ==
    LET e == RunEnd(s, 1, NotNewline)
    IN IF e > Len(s) THEN <<s>> ELSE <<SubSeq(s, 1, e - 1)>> \o Split(Drop(s, e + 1))

(***************************************************************************)
(* State.                                                                  *)
(***************************************************************************)
VARIABLES
    now,         \* Date.now(), in ms
    location,    \* window.location: its pathname and its v parameter
    apiKey,      \* whether window.ytcfg.data_ holds INNERTUBE_API_KEY
    pageScript,  \* "loading" | "loaded" | "failed": the injected transcript.js
    requests,    \* the requestTranscript calls so far, in call order
    queue,       \* message events posted on the window, not yet dispatched
    injected,    \* how many of them other scripts posted
    jobs,        \* the getTranscript invocations so far, in start order
    ignored,     \* history: why the page listener has returned without acting
    clipboard,   \* None, or Some(the text last written)
    clicks,      \* the handleClick calls so far, in call order, one per request
    dom,         \* the document's player controls and the content script's hold on them
    call         \* a function of transcript.js called on its own: name, argument, result

vars == <<now, location, apiKey, pageScript, requests, queue, injected, jobs, ignored,
          clipboard, clicks, dom, call>>

\* event.source of a message posted from this window, and from another one
Self == "window"
Other == "other"

Locations ==
    { [pathname |-> "/watch", v |-> Some("videoA")],
      [pathname |-> "/", v |-> None] }

\* the watch pages of two videos
Videos ==
    { [pathname |-> "/watch", v |-> Some("videoA")],
      [pathname |-> "/watch", v |-> Some("videoB")] }

(***************************************************************************)
(* What the network can answer.                                            *)
(***************************************************************************)
Track(kind, url) == [kind |-> kind, baseUrl |-> url]

\* the captionTracks lists a player response can carry
Catalogs ==
    { <<>>,
      <<Track(Some("asr"), Some("urlA"))>>,
      <<Track(Some("asr"), Some("urlA")), Track(None, Some("urlB"))>>,
      <<Track(None, None)>> }

XmlHello ==
    Str(<<"<", "p", " ", "t", "=", "\"", "1", "0", "0", "0", "\"", ">",
          "H", "i", "<", "/", "p", ">">>)
XmlBlank ==
    Str(<<"<", "p", " ", "t", "=", "\"", "5", "\"", ">", " ", "<", "/", "p", ">">>)

\* a body in another format
NotXml == Str(<<"{", "}">>)

\* the caption 'Hi' at 1000 ms in the segment-event format:
\* {"events":[{"tStartMs":1000,"segs":[{"utf8":"Hi"}]}]}
Json3Hello ==
    Str(<<"{", "\"", "e", "v", "e", "n", "t", "s", "\"", ":", "[", "{",
          "\"", "t", "S", "t", "a", "r", "t", "M", "s", "\"", ":", "1", "0",
          "0", "0", ",", "\"", "s", "e", "g", "s", "\"", ":", "[", "{",
          "\"", "u", "t", "f", "8", "\"", ":", "\"", "H", "i", "\"", "}",
          "]", "}", "]", "}">>)

\* the caption 'Yo' at 2000 ms
XmlYo ==
    Str(<<"<", "p", " ", "t", "=", "\"", "2", "0", "0", "0", "\"", ">",
          "Y", "o", "<", "/", "p", ">">>)

\* the captions upstream holds for a video: 'Yo' for videoB, 'Hi' for any other
CaptionsOf(videoId) == IF videoId = Some("videoB") THEN XmlYo ELSE XmlHello

\* the bodies a caption URL of a video can answer with: the URL comes from the
\* track list upstream returned for that video id (transcript.js:206-214, 364-368)
BodiesOf(videoId) == {<<>>, CaptionsOf(videoId), XmlBlank, NotXml, Json3Hello}

\* the bodies a caption URL can answer with
Bodies == {<<>>, XmlHello, XmlYo, XmlBlank, NotXml, Json3Hello}

\* answers to the player POST: fetch rejects, a status that is not ok, a body that is
\* not JSON, or a player response with a track list
CatalogAnswers ==
    { [kind |-> "reject", status |-> 0, tracks |-> <<>>],
      [kind |-> "status", status |-> 403, tracks |-> <<>>],
      [kind |-> "badjson", status |-> 200, tracks |-> <<>>] }
    \cup { [kind |-> "data", status |-> 200, tracks |-> c] : c \in Catalogs }

\* answers to the caption GET
PayloadAnswers ==
    { [kind |-> "reject", status |-> 0, body |-> <<>>],
      [kind |-> "status", status |-> 404, body |-> <<>>] }
    \cup { [kind |-> "body", status |-> 200, body |-> b] : b \in Bodies }

\* answers to the caption GET of a video's track
PayloadAnswersOf(videoId) ==
    {ans \in PayloadAnswers : ans.kind = "body" => ans.body \in BodiesOf(videoId)}

(***************************************************************************)
(* The extractor, transcript.js.                                           *)
(***************************************************************************)
\* what a run of getTranscript does next: throw, wait for a fetch, or return
Throw(step, msg) ==
    [kind |-> "throw", step |-> step, message |-> msg, url |-> None, transcript |-> <<>>]
Await(stage, url) ==
    [kind |-> "await", step |-> stage, message |-> "", url |-> url, transcript |-> <<>>]
Return(t) ==
    [kind |-> "return", step |-> "", message |-> "", url |-> None, transcript |-> t]

\* getVideoId answering with the identifier of one video whatever the location
getVideoIdKept(loc) == Some("videoA")

\* transcript.js:176-181
getVideoId(loc) == loc.v

\* transcript.js:218  `Player API failed: ${response.status}`
PlayerApiFailed(status) ==
    IF status = 403 THEN "Player API failed: 403" ELSE "Player API failed"
\* transcript.js:254  `Failed to fetch transcript: ${response.status}`
FetchTranscriptFailed(status) ==
    IF status = 404 THEN "Failed to fetch transcript: 404" ELSE "Failed to fetch transcript"

\* transcript.js:348-353 and 198-214: getTranscript up to its first await
GetTranscriptStart(loc, key) ==
    IF getVideoId(loc) = None THEN Throw("getVideoId", "No video ID found")
    ELSE IF ~key THEN Throw("getApiKey", "Could not find API key")
    ELSE Await("catalog", None)

\* selectTrack taking the last manual track
selectTrackLast(tracks) ==
    LET manual == {i \in 1..Len(tracks) :
                      tracks[i].kind = None \/ tracks[i].kind # Some("asr")}
    IN IF manual # {}
       THEN tracks[CHOOSE i \in manual : \A k \in manual : i >= k]
       ELSE tracks[1]

\* transcript.js:364  tracks.find(t => !t.kind || t.kind !== 'asr') || tracks[0]
selectTrack(tracks) ==
    LET manual == {i \in 1..Len(tracks) :
                      tracks[i].kind = None \/ tracks[i].kind # Some("asr")}
    IN IF manual # {}
       THEN tracks[CHOOSE i \in manual : \A k \in manual : i <= k]
       ELSE tracks[1]

\* AfterCatalog without the status check of transcript.js:217-219
AfterCatalogAnyStatus(ans) ==
    IF ans.kind = "reject" THEN Throw("catalog", "Failed to fetch")
    ELSE IF ans.kind = "badjson" THEN Throw("catalog", "Unexpected token in JSON")
    ELSE IF Len(ans.tracks) = 0 THEN Throw("tracks", "No transcript available")
    ELSE IF selectTrack(ans.tracks).baseUrl = None
         THEN Throw("payload", "Cannot read properties of undefined (reading 'substring')")
    ELSE Await("payload", selectTrack(ans.tracks).baseUrl)

\* transcript.js:216-223, 231-238, 358-368 and 246-250: from the player answer to
\* the caption fetch
AfterCatalog(ans) ==
    IF ans.kind = "reject" THEN Throw("catalog", "Failed to fetch")
    ELSE IF ans.kind = "status" THEN Throw("catalog", PlayerApiFailed(ans.status))
    ELSE IF ans.kind = "badjson" THEN Throw("catalog", "Unexpected token in JSON")
    ELSE IF Len(ans.tracks) = 0 THEN Throw("tracks", "No transcript available")
    ELSE IF selectTrack(ans.tracks).baseUrl = None
         THEN Throw("payload", "Cannot read properties of undefined (reading 'substring')")
    ELSE Await("payload", selectTrack(ans.tracks).baseUrl)

\* AfterPayload without the check of transcript.js:370-372
AfterPayloadAnyLength(ans) ==
    IF ans.kind = "reject" THEN Throw("payload", "Failed to fetch")
    ELSE IF ans.kind = "abort" THEN Throw("payload", "The operation timed out.")
    ELSE IF ans.kind = "status" THEN Throw("payload", FetchTranscriptFailed(ans.status))
    ELSE LET transcript == parseTranscriptXml(ans.body)
         IN IF transcript = <<>>
            THEN Throw("parse", "Failed to parse transcript")
            ELSE Return(transcript)

\* AfterPayload taking a payload without lines for a video without captions
AfterPayloadNoCaptions(ans) ==
    IF ans.kind = "reject" THEN Throw("payload", "Failed to fetch")
    ELSE IF ans.kind = "abort" THEN Throw("payload", "The operation timed out.")
    ELSE IF ans.kind = "status" THEN Throw("payload", FetchTranscriptFailed(ans.status))
    ELSE IF Len(ans.body) = 0 THEN Throw("empty", "Empty transcript response")
    ELSE LET transcript == parseTranscriptXml(ans.body)
         IN IF transcript = <<>>
            THEN Throw("tracks", "No transcript available")
            ELSE Return(transcript)

\* AfterPayload without the check of transcript.js:377-379
AfterPayloadUnchecked(ans) ==
    IF ans.kind = "reject" THEN Throw("payload", "Failed to fetch")
    ELSE IF ans.kind = "abort" THEN Throw("payload", "The operation timed out.")
    ELSE IF ans.kind = "status" THEN Throw("payload", FetchTranscriptFailed(ans.status))
    ELSE IF Len(ans.body) = 0 THEN Throw("empty", "Empty transcript response")
    ELSE Return(parseTranscriptXml(ans.body))

\* transcript.js:252-259 and 370-381: from the caption answer to the result
AfterPayload(ans) ==
    IF ans.kind = "reject" THEN Throw("payload", "Failed to fetch")
    ELSE IF ans.kind = "abort" THEN Throw("payload", "The operation timed out.")
    ELSE IF ans.kind = "status" THEN Throw("payload", FetchTranscriptFailed(ans.status))
    ELSE IF Len(ans.body) = 0 THEN Throw("empty", "Empty transcript response")
    ELSE LET transcript == parseTranscriptXml(ans.body)
         IN IF transcript = <<>>
            THEN Throw("parse", "Failed to parse transcript")
            ELSE Return(transcript)

(***************************************************************************)
(* Messages.                                                               *)
(***************************************************************************)
\* content.js:93  `transcript-${Date.now()}`
MessageId(t) == <<"transcript-", t>>
\* a messageId that is the empty string
EmptyId == <<"">>

\* content.js:113 and transcript.js:404, 407: the message objects. by and failed are
\* history: who posted it, and the step of getTranscript that threw ("" for none)
Message(src, by, type, id, transcript, error, failed) ==
    [source |-> src, by |-> by, type |-> type, messageId |-> id,
     transcript |-> transcript, error |-> error, failed |-> failed]

\* ResultMessage with a catch that answers with an empty transcript instead
ResultMessageFallback(id, res) ==
    IF res.kind = "return"
    THEN Message(Self, "page", "TRANSCRIPT_RESULT", id, Some(res.transcript), None, "")
    ELSE Message(Self, "page", "TRANSCRIPT_RESULT", id, Some(<<>>), None, res.step)

\* transcript.js:401-408: the listener's try/catch around getTranscript
ResultMessage(id, res) ==
    IF res.kind = "return"
    THEN Message(Self, "page", "TRANSCRIPT_RESULT", id, Some(res.transcript), None, "")
    ELSE Message(Self, "page", "TRANSCRIPT_RESULT", id, None, Some(res.message), res.step)

\* PageAccepts without the source check of transcript.js:395
PageAcceptsAnySource(m) ==
    /\ m.type = "GET_TRANSCRIPT"
    /\ m.messageId # None /\ m.messageId # EmptyId

\* transcript.js:395-398: the messages the page listener acts on
PageAccepts(m) ==
    /\ m.source = Self
    /\ m.type = "GET_TRANSCRIPT"
    /\ m.messageId # None /\ m.messageId # EmptyId

\* transcript.js:395-398: why the page listener returns without acting on m
Refusals(m) ==
    (IF m.source # Self THEN {"source"} ELSE {})
    \cup (IF m.source = Self /\ m.type # "GET_TRANSCRIPT" THEN {"type"} ELSE {})
    \cup (IF m.source = Self /\ m.type = "GET_TRANSCRIPT"
              /\ (m.messageId = None \/ m.messageId = EmptyId)
          THEN {"messageId"} ELSE {})

\* a text another script can put in a forged response
Spoof == Str(<<"s", "p", "o", "o", "f">>)

\* what scripts other than the extension's can post on the window
EnvMessages ==
    LET ids == {requests[i].id : i \in DOMAIN requests}
    IN { Message(Other, "env", "GET_TRANSCRIPT", id, None, None, "") : id \in ids }
       \cup { Message(Self, "env", "GET_TRANSCRIPT", id, None, None, "") :
                 id \in {None, EmptyId} }
       \cup { Message(Other, "env", "TRANSCRIPT_RESULT", id, Some(Spoof), None, "") :
                 id \in ids }
       \cup { Message(Self, "env", "OTHER", None, None, None, "") }

(***************************************************************************)
(* The bridge, content.js.                                                 *)
(***************************************************************************)
Pending(r) == ~r.settled

\* the Promise's resolve function (content.js:92): only the first call settles it
Resolve(r, v) ==
    IF r.settled THEN r ELSE [r EXCEPT !.settled = TRUE, !.value = v]

\* content.js:92-120: the state a call of requestTranscript at time t sets up: the
\* listener, the timer and the pending promise. accepts is history: how many
\* responses the handler has accepted
NewRequest(t) ==
    [id |-> MessageId(t), issuedAt |-> t, listening |-> TRUE, timer |-> TRUE,
     settled |-> FALSE, value |-> JsUndefined, accepts |-> 0]

\* Deadline with half the delay
DeadlineHalved(t) == t + TIMEOUT_MS \div 2

\* content.js:116-120: when the timer set at time t is due
Deadline(t) == t + TIMEOUT_MS

\* content.js:97: the responses the handler of request r accepts
HandlerAccepts(r, m) ==
    /\ m.type = "TRANSCRIPT_RESULT"
    /\ m.messageId = r.id

\* handler called whether or not the listener is still registered
handlerStillCalled(r, m) ==
    IF HandlerAccepts(r, m)
    THEN LET off == [r EXCEPT !.listening = FALSE, !.accepts = @ + 1]
         IN IF ErrorTruthy(m.error)
            THEN Resolve(off, JsNull)
            ELSE Resolve(off, Field(m.transcript))
    ELSE r

\* handler without the removeEventListener of content.js:99
handlerKeepsListening(r, m) ==
    IF r.listening /\ HandlerAccepts(r, m)
    THEN LET on == [r EXCEPT !.accepts = @ + 1]
         IN IF ErrorTruthy(m.error)
            THEN Resolve(on, JsNull)
            ELSE Resolve(on, Field(m.transcript))
    ELSE r

\* handler without the error branch of content.js:100-102
handlerIgnoresError(r, m) ==
    IF r.listening /\ HandlerAccepts(r, m)
    THEN Resolve([r EXCEPT !.listening = FALSE, !.accepts = @ + 1], Field(m.transcript))
    ELSE r

\* content.js:96-108: the handler of request r, called with message m
handler(r, m) ==
    IF r.listening /\ HandlerAccepts(r, m)
    THEN LET off == [r EXCEPT !.listening = FALSE, !.accepts = @ + 1]
         IN IF ErrorTruthy(m.error)
            THEN Resolve(off, JsNull)
            ELSE Resolve(off, Field(m.transcript))
    ELSE r

\* onTimeout setting the promise's value whether or not it is settled
onTimeoutOverwrites(r) ==
    [r EXCEPT !.timer = FALSE, !.listening = FALSE, !.settled = TRUE, !.value = JsNull]

\* onTimeout without the resolve(null) of content.js:119
onTimeoutKeepsWaiting(r) ==
    [r EXCEPT !.timer = FALSE, !.listening = FALSE]

\* onTimeout without the removeEventListener of content.js:118
onTimeoutKeepsListener(r) ==
    Resolve([r EXCEPT !.timer = FALSE], JsNull)

\* content.js:116-120: the timeout callback of request r
onTimeout(r) ==
    Resolve([r EXCEPT !.timer = FALSE, !.listening = FALSE], JsNull)

\* content.js:69-77: the texts handleClick passes to clipboard.writeText when the
\* awaited promises of before settle as in after
Copied(before, after) ==
    { after[i].value.str : i \in {k \in DOMAIN before :
          Pending(before[k]) /\ ~Pending(after[k]) /\ Truthy(after[k].value)} }

\* navigator.clipboard.writeText: the clipboard when every write of texts succeeds
\* (ok) or is refused
Written(texts, ok) ==
    IF texts # {} /\ ok THEN Some(CHOOSE t \in texts : TRUE) ELSE clipboard

\* content.js:65-69: a handleClick call waiting for requestTranscript's promise.
\* wrote is history: the text it has passed to clipboard.writeText, if any
NewClick == [at |-> "awaiting", wrote |-> None]

\* handleClick without the test of content.js:70
handleClickCopiesAnyResult(c, before, after, ok) ==
    IF Pending(before) /\ ~Pending(after)
    THEN [at |-> IF ok THEN "copied" ELSE "caught", wrote |-> Some(after.value.str)]
    ELSE c

\* content.js:70-82: handleClick call c resumes when its request goes from before
\* to after; a writeText that is refused (not ok) rejects and is caught
handleClick(c, before, after, ok) ==
    IF Pending(before) /\ ~Pending(after)
    THEN IF Truthy(after.value)
         THEN [at |-> IF ok THEN "copied" ELSE "caught", wrote |-> Some(after.value.str)]
         ELSE [at |-> "skipped", wrote |-> None]
    ELSE c

(***************************************************************************)
(* The control button, content.js.                                         *)
(***************************************************************************)
\* content.js:199-201
isWatchPage(loc) == loc.pathname = "/watch"

\* what a document can hold of the player: its .ytp-right-controls or not, and in
\* them the .ytp-subtitles-button (CC) or not
Players ==
    { [controls |-> FALSE, cc |-> FALSE],
      [controls |-> TRUE, cc |-> FALSE],
      [controls |-> TRUE, cc |-> TRUE] }

\* a document as a page load leaves it, holding player. buttons counts the
\* elements carrying data-transcript-control; where is the place of the button
\* last inserted; observing says that init has registered its two observers;
\* lastUrl is the urlObserver's variable; timers counts the pending callbacks of
\* content.js:238; rendered says that the page has changed the document since
\* the location last changed
Document(player) ==
    [controls |-> player.controls, cc |-> player.cc, buttons |-> 0, where |-> "",
     observing |-> FALSE, lastUrl |-> None, timers |-> 0, rendered |-> TRUE]

\* injectControl without the test of content.js:152-155
injectControlUnchecked(d) ==
    IF ~d.controls THEN d
    ELSE [d EXCEPT !.buttons = @ + 1,
                   !.where = IF d.cc THEN "beforeCC" ELSE "first"]

\* content.js:148-193: the button goes before the CC button or, failing that, to
\* the start of the controls container
injectControl(d) ==
    IF d.buttons > 0 THEN d
    ELSE IF ~d.controls THEN d
    ELSE [d EXCEPT !.buttons = @ + 1,
                   !.where = IF d.cc THEN "beforeCC" ELSE "first"]

\* init without the test of content.js:209-212
initAnywhere(d, loc) ==
    [injectControl(d) EXCEPT !.observing = TRUE, !.lastUrl = Some(loc)]

\* content.js:206-252
init(d, loc) ==
    IF ~isWatchPage(loc) THEN d
    ELSE [injectControl(d) EXCEPT !.observing = TRUE, !.lastUrl = Some(loc)]

\* content.js:219-223: the first observer's callback
observer(d, loc) ==
    IF isWatchPage(loc) /\ d.buttons = 0 THEN injectControl(d) ELSE d

\* content.js:233-245: the second observer's callback
urlObserver(d, loc) ==
    IF Some(loc) # d.lastUrl
    THEN [d EXCEPT !.lastUrl = Some(loc), !.timers = @ + 1]
    ELSE d

\* the callbacks of the registered observers, in the order they were created, after
\* a change under document.body; the insertion of the button is such a change
\* too, and the callbacks it schedules find nothing left to do
onMutation(d, loc) ==
    IF d.observing THEN urlObserver(observer(d, loc), loc) ELSE d

\* content.js:238-243: the callback of the 500 ms timer
onReinjectTimer(d, loc) ==
    LET e == [d EXCEPT !.timers = @ - 1]
    IN IF isWatchPage(loc) THEN injectControl(e) ELSE e

\* what the page can do to its player controls in one task: put new ones in the
\* document or take them out, the button going with the old ones; put in or take
\* out the CC button; or change something else
Mutations(d) ==
    { [d EXCEPT !.controls = p.controls, !.cc = p.cc, !.buttons = 0, !.where = ""] :
         p \in Players }
    \cup (IF d.controls THEN {[d EXCEPT !.cc = cc] : cc \in BOOLEAN} ELSE {})
    \cup {d}

\* the document with the control in place, on a watch page
DomInPlace ==
    init(Document([controls |-> TRUE, cc |-> TRUE]), [pathname |-> "/watch", v |-> Some("videoA")])

\* no function is being called on its own
NoCall == [fn |-> "", arg |-> [none |-> TRUE], ret |-> None]

(***************************************************************************)
(* Actions: one task of the event loop each.                               *)
(***************************************************************************)
Init ==
    /\ now = 0
    /\ location \in Locations
    /\ apiKey \in BOOLEAN
    /\ pageScript = "loading"
    /\ requests = <<>>
    /\ queue = <<>>
    /\ injected = 0
    /\ jobs = <<>>
    /\ ignored = {}
    /\ clipboard = None
    /\ clicks = <<>>
    /\ dom = DomInPlace
    /\ call = NoCall

\* content.js:21-24 and transcript.js:393: the injected script runs and listens
ScriptLoads ==
    /\ pageScript = "loading"
    /\ pageScript' = "loaded"
    /\ UNCHANGED <<call, dom, clicks, now, location, apiKey, requests, queue, injected, jobs, ignored, clipboard>>

\* content.js:25-27: the injected script does not load
ScriptFails ==
    /\ pageScript = "loading"
    /\ pageScript' = "failed"
    /\ UNCHANGED <<call, dom, clicks, now, location, apiKey, requests, queue, injected, jobs, ignored, clipboard>>

\* the page navigates in place
Navigate ==
    /\ \E loc \in Locations \ {location} : location' = loc
    /\ UNCHANGED <<call, dom, clicks, now, apiKey, pageScript, requests, queue, injected, jobs, ignored, clipboard>>

\* the page navigates in place to the watch page of another video
NavigateToVideo ==
    /\ \E loc \in Videos \ {location} : location' = loc
    /\ UNCHANGED <<call, dom, clicks, now, apiKey, pageScript, requests, queue, injected, jobs, ignored, clipboard>>

\* content.js:65-69 and 91-121: a click; handleClick calls requestTranscript
Click ==
    /\ Len(requests) + injected < MaxPosts
    /\ now + TIMEOUT_MS <= MaxNow
    /\ requests' = Append(requests, NewRequest(now))
    /\ queue' = Append(queue,
                       Message(Self, "content", "GET_TRANSCRIPT", MessageId(now),
                               None, None, ""))
    /\ clicks' = Append(clicks, NewClick)
    /\ UNCHANGED <<call, dom, now, location, apiKey, pageScript, injected, jobs, ignored, clipboard>>

\* another script posts a message on the window
Inject ==
    /\ Len(requests) + injected < MaxPosts
    /\ \E m \in EnvMessages : queue' = Append(queue, m)
    /\ injected' = injected + 1
    /\ UNCHANGED <<call, dom, clicks, now, location, apiKey, pageScript, requests, jobs, ignored, clipboard>>

\* NewJob issuing the player POST and a caption GET together
NewJobFansOut(m, res, videoId) ==
    [messageId |-> m.messageId, videoId |-> videoId,
     stage |-> IF res.kind = "await" THEN "payload" ELSE "done",
     url |-> None, fetchStart |-> 0,
     posts |-> IF res.kind = "await" THEN 1 ELSE 0,
     gets |-> IF res.kind = "await" THEN 1 ELSE 0,
     results |-> IF res.kind = "await" THEN 0 ELSE 1]

\* transcript.js:399-402: the getTranscript invocation a GET_TRANSCRIPT message m
\* starts, given what it did up to its first await. posts, gets and results are
\* history: the player POSTs and caption GETs it has issued, the results it has posted.
\* videoId is the identifier it read (transcript.js:349)
NewJob(m, res, videoId) ==
    [messageId |-> m.messageId, videoId |-> videoId,
     stage |-> IF res.kind = "await" THEN res.step ELSE "done",
     url |-> None, fetchStart |-> 0,
     posts |-> IF res.kind = "await" THEN 1 ELSE 0, gets |-> 0,
     results |-> IF res.kind = "await" THEN 0 ELSE 1]

\* Finished starting over with a new player POST
FinishedRetries(job) ==
    [job EXCEPT !.stage = "catalog", !.url = None, !.fetchStart = 0, !.posts = @ + 1]

\* the invocation is over: its locals are gone, its result is posted
Finished(job) ==
    [job EXCEPT !.stage = "done", !.url = None, !.fetchStart = 0, !.results = @ + 1]

\* the window dispatches its oldest message event to every listener: the handlers of
\* content.js:96-108, then handleClick's continuation (content.js:70-77), and the
\* page listener of transcript.js:393-410 up to getTranscript's first await
Dispatch ==
    /\ queue # <<>>
    /\ LET m == Head(queue)
           after == [i \in DOMAIN requests |-> handler(requests[i], m)]
           heard == pageScript = "loaded" /\ PageAccepts(m)
           res == GetTranscriptStart(location, apiKey)
       IN /\ requests' = after
          /\ \E ok \in BOOLEAN :
                /\ clicks' = [i \in DOMAIN clicks |->
                                 handleClick(clicks[i], requests[i], after[i], ok)]
                /\ clipboard' = Written(Copied(requests, after), ok)
          /\ IF heard
             THEN /\ jobs' = Append(jobs, NewJob(m, res, getVideoId(location)))
                  /\ queue' = IF res.kind = "throw"
                              THEN Append(Tail(queue), ResultMessage(m.messageId, res))
                              ELSE Tail(queue)
             ELSE /\ jobs' = jobs
                  /\ queue' = Tail(queue)
          /\ ignored' = IF pageScript = "loaded" /\ ~PageAccepts(m)
                        THEN ignored \cup Refusals(m) ELSE ignored
    /\ UNCHANGED <<call, dom, now, location, apiKey, pageScript, injected>>

\* transcript.js:206-223 and 356-368: the player POST of job j is answered with ans
CatalogAnswer(j, ans) ==
    /\ jobs[j].stage = "catalog"
    /\ LET res == AfterCatalog(ans)
       IN IF res.kind = "await"
          THEN /\ jobs' = [jobs EXCEPT ![j].stage = "payload", ![j].url = res.url,
                                       ![j].fetchStart = now, ![j].gets = @ + 1]
               /\ queue' = queue
          ELSE /\ jobs' = [jobs EXCEPT ![j] = Finished(jobs[j])]
               /\ queue' = Append(queue, ResultMessage(jobs[j].messageId, res))
    /\ UNCHANGED <<call, dom, clicks, now, location, apiKey, pageScript, requests, injected, ignored, clipboard>>

CatalogAnswered ==
    \E j \in DOMAIN jobs : \E ans \in CatalogAnswers : CatalogAnswer(j, ans)

\* transcript.js:247-259 and 370-408: the caption GET of job j is answered with ans
PayloadAnswer(j, ans) ==
    /\ jobs[j].stage = "payload"
    /\ jobs' = [jobs EXCEPT ![j] = Finished(jobs[j])]
    /\ queue' = Append(queue, ResultMessage(jobs[j].messageId, AfterPayload(ans)))
    /\ UNCHANGED <<call, dom, clicks, now, location, apiKey, pageScript, requests, injected, ignored, clipboard>>

PayloadAnswered ==
    \E j \in DOMAIN jobs : \E ans \in PayloadAnswersOf(jobs[j].videoId) :
        PayloadAnswer(j, ans)

\* transcript.js:249: AbortSignal.timeout(15000) aborts the caption GET of job j
PayloadAbort(j) ==
    /\ jobs[j].stage = "payload"
    /\ now >= jobs[j].fetchStart + FETCH_TIMEOUT_MS
    /\ jobs' = [jobs EXCEPT ![j] = Finished(jobs[j])]
    /\ queue' = Append(queue,
           ResultMessage(jobs[j].messageId,
                         AfterPayload([kind |-> "abort", status |-> 0, body |-> <<>>])))
    /\ UNCHANGED <<call, dom, clicks, now, location, apiKey, pageScript, requests, injected, ignored, clipboard>>

PayloadAborted ==
    \E j \in DOMAIN jobs : PayloadAbort(j)

\* content.js:116-120: the timeout of request r fires
TimerFires ==
    \E r \in DOMAIN requests :
        /\ requests[r].timer
        /\ now >= Deadline(requests[r].issuedAt)
        /\ requests' = [requests EXCEPT ![r] = onTimeout(requests[r])]
        /\ clicks' = [clicks EXCEPT
                         ![r] = handleClick(@, requests[r], onTimeout(requests[r]), TRUE)]
        /\ UNCHANGED <<call, dom, now, location, apiKey, pageScript, queue, injected, jobs, ignored, clipboard>>

\* the times at which a timer task is due
Due ==
    {Deadline(requests[r].issuedAt) : r \in {k \in DOMAIN requests : requests[k].timer}}
    \cup {jobs[j].fetchStart + FETCH_TIMEOUT_MS :
              j \in {k \in DOMAIN jobs : jobs[k].stage = "payload"}}

\* time passes; a due timer task runs at most TimerSlack late
Tick ==
    /\ \E t \in TimeGrid :
          /\ t > now
          /\ \A d \in Due : d <= MaxNow => t <= d + TimerSlack
          /\ now' = t
    /\ UNCHANGED <<call, dom, clicks, location, apiKey, pageScript, requests, queue, injected, jobs, ignored, clipboard>>

Next ==
    \/ ScriptLoads
    \/ ScriptFails
    \/ Navigate
    \/ Click
    \/ Inject
    \/ Dispatch
    \/ CatalogAnswered
    \/ PayloadAnswered
    \/ PayloadAborted
    \/ TimerFires
    \/ Tick

Spec == Init /\ [][Next]_vars

\* a session on the watch pages of two videos, the page configured, the
\* extractor loaded and no other script posting on the window
InitVideos ==
    /\ now = 0
    /\ location \in Videos
    /\ apiKey = TRUE
    /\ pageScript = "loaded"
    /\ requests = <<>>
    /\ queue = <<>>
    /\ injected = 0
    /\ jobs = <<>>
    /\ ignored = {}
    /\ clipboard = None
    /\ clicks = <<>>
    /\ dom = DomInPlace
    /\ call = NoCall

NextVideos ==
    \/ NavigateToVideo
    \/ Click
    \/ Dispatch
    \/ CatalogAnswered
    \/ PayloadAnswered
    \/ PayloadAborted
    \/ TimerFires
    \/ Tick

VideosSpec == InitVideos /\ [][NextVideos]_vars

(***************************************************************************)
(* The control button on its own: page loads, in-page navigation, changes  *)
(* of the document, and the content script's callbacks.                    *)
(***************************************************************************)
\* the bridge has nothing to do
NoRequests ==
    /\ now = 0
    /\ apiKey = TRUE
    /\ pageScript = "loading"
    /\ requests = <<>>
    /\ queue = <<>>
    /\ injected = 0
    /\ jobs = <<>>
    /\ ignored = {}
    /\ clipboard = None
    /\ clicks = <<>>
    /\ call = NoCall

StayNoRequests ==
    UNCHANGED <<now, apiKey, pageScript, requests, queue, injected, jobs, ignored,
                clipboard, clicks, call>>

\* content.js:254-256: the content script starts in a document just loaded
InitControl ==
    /\ NoRequests
    /\ location \in Locations \cup Videos
    /\ \E player \in Players : dom = init(Document(player), location)

\* a page load: a new document, in which the content script starts again
Load ==
    /\ \E loc \in Locations \cup Videos : \E player \in Players :
          /\ location' = loc
          /\ dom' = init(Document(player), loc)
    /\ StayNoRequests

\* the page navigates in place: the href changes, the document has yet to follow
\* (content.js:232-236: the urlObserver sees the new href at the next change)
SpaNavigate ==
    /\ dom.timers < MaxTimers
    /\ \E loc \in (Locations \cup Videos) \ {location} : location' = loc
    /\ dom' = [dom EXCEPT !.rendered = FALSE]
    /\ StayNoRequests

\* the page changes its document, and the observers' callbacks run
DomMutates ==
    /\ \E m \in Mutations(dom) :
          dom' = [onMutation(m, location) EXCEPT !.rendered = TRUE]
    /\ UNCHANGED location
    /\ StayNoRequests

\* the page renders the location navigated to
Renders == ~dom.rendered /\ DomMutates

\* content.js:238-243: a re-injection timer fires
ReinjectTimerFires ==
    /\ dom.timers > 0
    /\ dom' = onReinjectTimer(dom, location)
    /\ UNCHANGED location
    /\ StayNoRequests

NextControl ==
    \/ Load
    \/ SpaNavigate
    \/ DomMutates
    \/ ReinjectTimerFires

ControlSpec == InitControl /\ [][NextControl]_vars

\* the event loop runs a timer task that is due, and a page navigated to is
\* rendered
FairControlSpec ==
    ControlSpec /\ WF_vars(ReinjectTimerFires) /\ WF_vars(Renders)

\* the event loop: time passes, and a timer task that is due is run
FairSpec ==
    Spec /\ WF_vars(Tick) /\ WF_vars(TimerFires) /\ WF_vars(PayloadAborted)

(***************************************************************************)
(* The functions of transcript.js called on their own: call holds the      *)
(* function's name and argument, and its result once it has returned.      *)
(***************************************************************************)
\* the rest of the program stands still
Idle ==
    /\ now = 0
    /\ location = [pathname |-> "/watch", v |-> Some("videoA")]
    /\ apiKey = TRUE
    /\ pageScript = "loading"
    /\ requests = <<>>
    /\ queue = <<>>
    /\ injected = 0
    /\ jobs = <<>>
    /\ ignored = {}
    /\ clipboard = None
    /\ clicks = <<>>
    /\ dom = DomInPlace

Stay ==
    UNCHANGED <<clicks, dom, now, location, apiKey, pageScript, requests, queue, injected, jobs,
                ignored, clipboard>>

Call(fn, arg) == [fn |-> fn, arg |-> arg, ret |-> None]

\* the function fn is being called and has not returned
Calling(fn) == call.fn = fn /\ call.ret = None

\* the function fn has returned
Returned(fn) == call.fn = fn /\ call.ret # None

\* the kind a caption track can carry: none, 'asr', the empty string, another one
TrackKinds == {None, Some("asr"), Some(""), Some("forced")}

\* the non-empty track lists of up to MaxTracks tracks, the i-th with baseUrl i
TrackLists ==
    UNION {{[i \in 1..n |-> Track(kinds[i], Some(i))] : kinds \in [1..n -> TrackKinds]} :
              n \in 1..MaxTracks}

\* entries of a caption payload in the tag-delimited format: the start offset, the
\* text as the payload carries it, and the line the entry stands for ("" for an
\* entry without text)
EntrySamples ==
  {
    [tStartMs |-> 1000, raw |-> Str(<<"H", "i">>),
     line |-> Str(<<"[", "0", "0", ":", "0", "1", "]", " ", "H", "i">>)],
    [tStartMs |-> 2500, raw |-> Str(<<"a", " ", "&", "a", "m", "p", ";", " ", "b">>),
     line |-> Str(<<"[", "0", "0", ":", "0", "2", "]", " ", "a", " ", "&", " ", "b">>)],
    [tStartMs |-> 61000, raw |-> Str(<<"x", "\n", "y">>),
     line |-> Str(<<"[", "0", "1", ":", "0", "1", "]", " ", "x", " ", "y">>)],
    [tStartMs |-> 3600000, raw |-> Str(<<" ", "&", "#", "3", "9", ";", "k", "&", "#", "3", "9", ";", " ">>),
     line |-> Str(<<"[", "1", ":", "0", "0", ":", "0", "0", "]", " ", "'", "k", "'">>)],
    [tStartMs |-> 8000, raw |-> Str(<<"p", "&", "#", "1", "0", ";", "q">>),
     line |-> Str(<<"[", "0", "0", ":", "0", "8", "]", " ", "p", " ", "q">>)],
    [tStartMs |-> 5, raw |-> Str(<<" ">>),
     line |-> <<>>],
    [tStartMs |-> 7, raw |-> Str(<<"&", "#", "1", "0", ";">>),
     line |-> <<>>],
    [tStartMs |-> 9, raw |-> <<>>,
     line |-> <<>>]
  }

\* the entry lists of up to MaxEntries entries
EntryLists == UNION {[1..n -> EntrySamples] : n \in 0..MaxEntries}

\* the literal parts of a caption payload
BodyOpen == Str(<<"<", "b", "o", "d", "y", ">">>)
BodyClose == Str(<<"<", "/", "b", "o", "d", "y", ">">>)
DAttr == Str(<<"\"", " ", "d", "=", "\"", "4", "0", "0", "\"", ">">>)

\* the payload upstream sends for entries: <body><p t="ms" d="400">text</p>...</body>
RECURSIVE TimedTextEntries(_)
TimedTextEntries(entries) ==
    IF entries = <<>> THEN <<>>
    ELSE POpen \o ToDigits(entries[1].tStartMs) \o DAttr \o entries[1].raw \o PClose
         \o TimedTextEntries(Tail(entries))

TimedText(entries) == BodyOpen \o TimedTextEntries(entries) \o BodyClose

\* events of a caption payload in the segment-event format: the start offset, the
\* segments if any, and the line the event stands for ("" for an event without
\* text)
EventSamples ==
  {
    [tStartMs |-> 1000,
     segs |-> Some(<<[utf8 |-> Some(Str(<<"H", "i">>))]>>),
     line |-> Str(<<"[", "0", "0", ":", "0", "1", "]", " ", "H", "i">>)],
    [tStartMs |-> 2500,
     segs |-> Some(<<[utf8 |-> Some(Str(<<"a", " ">>))], [utf8 |-> Some(Str(<<"&", " ", "b">>))]>>),
     line |-> Str(<<"[", "0", "0", ":", "0", "2", "]", " ", "a", " ", "&", " ", "b">>)],
    [tStartMs |-> 61000,
     segs |-> Some(<<[utf8 |-> Some(Str(<<"x", "\n", "y">>))]>>),
     line |-> Str(<<"[", "0", "1", ":", "0", "1", "]", " ", "x", "\n", "y">>)],
    [tStartMs |-> 3600000,
     segs |-> Some(<<[utf8 |-> Some(Str(<<" ", "'", "k", "'">>))], [utf8 |-> None], [utf8 |-> Some(Str(<<" ">>))]>>),
     line |-> Str(<<"[", "1", ":", "0", "0", ":", "0", "0", "]", " ", "'", "k", "'">>)],
    [tStartMs |-> 5,
     segs |-> None,
     line |-> <<>>],
    [tStartMs |-> 6,
     segs |-> Some(<<[utf8 |-> Some(Str(<<"\n">>))]>>),
     line |-> <<>>],
    [tStartMs |-> 7,
     segs |-> Some(<<>>),
     line |-> <<>>],
    [tStartMs |-> 9,
     segs |-> Some(<<[utf8 |-> None], [utf8 |-> Some(Str(<<" ">>))]>>),
     line |-> <<>>]
  }

\* the event lists of up to MaxEntries events
EventLists == UNION {[1..n -> EventSamples] : n \in 0..MaxEntries}

\* what a caption can say, whatever the format: a start offset and a text
Contents ==
  {
    [tStartMs |-> 1000, text |-> Str(<<"H", "i">>)],
    [tStartMs |-> 2500, text |-> Str(<<"a", " ", "&", " ", "b">>)],
    [tStartMs |-> 4000, text |-> Str(<<" ", "<", "k", ">", " ">>)],
    [tStartMs |-> 61000, text |-> Str(<<"x", "\n", "y">>)],
    [tStartMs |-> 62000, text |-> Str(<<"&", "l", "t", ";">>)]
  }

\* the captions of up to MaxEntries entries
ContentLists == UNION {[1..n -> Contents] : n \in 0..MaxEntries}

\* the text of a caption as the tag-delimited format carries it: & < > escaped
RECURSIVE XmlEscape(_)
XmlEscape(text) ==
    IF text = <<>> THEN <<>>
    ELSE (CASE text[1] = 38 -> Entities[1][1]
            [] text[1] = 60 -> Entities[2][1]
            [] text[1] = 62 -> Entities[3][1]
            [] OTHER -> <<text[1]>>) \o XmlEscape(Tail(text))

\* the same captions in the two formats
AsEntries(contents) ==
    [i \in 1..Len(contents) |->
        [tStartMs |-> contents[i].tStartMs, raw |-> XmlEscape(contents[i].text)]]
AsEvents(contents) ==
    [i \in 1..Len(contents) |->
        [tStartMs |-> contents[i].tStartMs,
         segs |-> Some(<<[utf8 |-> Some(contents[i].text)]>>)]]

\* start offsets around every field's boundaries: hours, minutes and seconds
\* of one and of two digits, with and without a fraction of a second
TimestampSamples ==
    {h * 3600000 + m * 60000 + sec * 1000 + f :
        h \in {0, 1, 10, 25}, m \in {0, 9, 10, 59}, sec \in {0, 9, 10, 59},
        f \in {0, 1, 999}}

\* texts to decode: without entities, with something that only looks like one,
\* with each entity of the table, with a decimal and a hexadecimal one, and with
\* entities that encode the ampersand of another entity
DecodeSamples == {
    <<>>,
    Str(<<"H", "i">>),
    Str(<<"a", " ", "&", " ", "b">>),
    Str(<<"A", "T", "&", "T", ";">>),
    Str(<<"&", "#", ";">>),
    Str(<<"&", "#", "x", ";">>),
    Str(<<"&", "#", "6", "5">>),
    Str(<<"&", "a", "m", "p", ";">>),
    Str(<<"&", "l", "t", ";">>),
    Str(<<"&", "g", "t", ";">>),
    Str(<<"&", "q", "u", "o", "t", ";">>),
    Str(<<"&", "#", "3", "9", ";">>),
    Str(<<"&", "#", "6", "5", ";">>),
    Str(<<"&", "#", "x", "4", "1", ";">>),
    Str(<<"&", "a", "p", "o", "s", ";">>),
    Str(<<"&", "#", "x", "2", "7", ";">>),
    Str(<<"&", "#", "x", "2", "F", ";">>),
    Str(<<"&", "#", "4", "7", ";">>),
    Str(<<"&", "n", "b", "s", "p", ";">>),
    Str(<<"a", " ", "&", "a", "m", "p", ";", " ", "b">>),
    Str(<<"&", "l", "t", ";", "p", "&", "g", "t", ";">>),
    Str(<<"&", "a", "m", "p", ";", "a", "m", "p", ";">>),
    Str(<<"&", "a", "m", "p", ";", "l", "t", ";">>),
    Str(<<"&", "#", "3", "8", ";", "a", "m", "p", ";">>),
    Str(<<"&", "a", "m", "p", ";", "#", "6", "5", ";">>),
    Str(<<"&", "#", "3", "8", ";", "#", "6", "5", ";">>),
    Str(<<"&", "#", "x", "2", "6", ";", "l", "t", ";">>),
    Str(<<"&", "#", "2", "3", "3", ";">>),
    Str(<<"&", "#", "x", "2", "0", "A", "C", ";">>),
    Str(<<"&", "#", "1", "2", "8", "5", "1", "2", ";">>),
    Str(<<"&", "#", "x", "1", "F", "6", "0", "0", ";">>) }

\* the calls made
Calls ==
    {Call("selectTrack", [tracks |-> tracks]) : tracks \in TrackLists}
    \cup {Call("parseTranscriptXml", [entries |-> es, xml |-> TimedText(es)]) :
             es \in EntryLists}
    \cup {Call("parseTranscriptJson", [events |-> Some(es)]) : es \in EventLists}
    \cup {Call("parseTranscriptJson", [events |-> None])}
    \cup {Call("parse", [contents |-> cs,
                          xml |-> TimedText(AsEntries(cs)),
                          data |-> [events |-> Some(AsEvents(cs))]]) :
             cs \in ContentLists}
    \cup {Call("formatTimestamp", [ms |-> ms]) : ms \in TimestampSamples}
    \cup {Call("decodeHtmlEntities", [text |-> t, first |-> None]) :
             t \in DecodeSamples}

InitCall ==
    /\ Idle
    /\ call \in Calls

\* transcript.js:364
CallSelectTrack ==
    /\ Calling("selectTrack")
    /\ call' = [call EXCEPT !.ret = Some(selectTrack(call.arg.tracks))]
    /\ Stay

\* transcript.js:374: the lines pushed and the text returned
CallParseTranscriptXml ==
    /\ Calling("parseTranscriptXml")
    /\ call' = [call EXCEPT !.ret = Some([lines |-> XmlLines(call.arg.xml, 1),
                                          text |-> parseTranscriptXml(call.arg.xml)])]
    /\ Stay

\* transcript.js:61: the lines pushed and the text returned
CallParseTranscriptJson ==
    /\ Calling("parseTranscriptJson")
    /\ call' = [call EXCEPT !.ret =
                   Some([lines |-> JsonLines(IF call.arg.events = None THEN <<>>
                                             ELSE call.arg.events[1]),
                         text |-> parseTranscriptJson(call.arg)])]
    /\ Stay

\* transcript.js:61 and 374: both parsers, each on its format of the same captions
CallBothParsers ==
    /\ Calling("parse")
    /\ call' = [call EXCEPT !.ret =
                   Some([xml |-> parseTranscriptXml(call.arg.xml),
                         json |-> parseTranscriptJson(call.arg.data)])]
    /\ Stay

\* transcript.js:328
CallFormatTimestamp ==
    /\ Calling("formatTimestamp")
    /\ call' = [call EXCEPT !.ret = Some(formatTimestamp(call.arg.ms))]
    /\ Stay

\* transcript.js:267
CallDecodeHtmlEntities ==
    /\ Calling("decodeHtmlEntities")
    /\ call' = [call EXCEPT !.ret = Some(decodeHtmlEntities(call.arg.text))]
    /\ Stay

\* transcript.js:267, called on the text a first call returned; first keeps the
\* text that call was given
CallDecodeHtmlEntitiesAgain ==
    /\ Returned("decodeHtmlEntities")
    /\ call.arg.first = None
    /\ call' = [call EXCEPT !.arg = [text |-> call.ret[1],
                                     first |-> Some(call.arg.text)],
                            !.ret = Some(decodeHtmlEntities(call.ret[1]))]
    /\ Stay

NextCall ==
    \/ CallSelectTrack
    \/ CallParseTranscriptXml
    \/ CallParseTranscriptJson
    \/ CallBothParsers
    \/ CallFormatTimestamp
    \/ CallDecodeHtmlEntities
    \/ CallDecodeHtmlEntitiesAgain

CallSpec == InitCall /\ [][NextCall]_vars

(***************************************************************************)
(* Properties.                                                             *)
(***************************************************************************)
\* the timeout callback of request i runs in this step
TimedOut(i) == requests[i].timer /\ ~requests'[i].timer

\* a step settles request i
Settles(i) == Pending(requests[i]) /\ ~Pending(requests'[i])

\* C1: a correlated response dispatched while the request awaits one settles the
\* promise, with the response's transcript when it carries one and no error; the
\* handler accepts one response only, and once settled the promise keeps its value
\* whatever is dispatched or fires later.
C1_ResolvesExactlyOnce ==
    [][\A i \in DOMAIN requests :
          LET r == requests[i]
              r2 == requests'[i]
              m == Head(queue)
          IN /\ (Dispatch /\ m.type = "TRANSCRIPT_RESULT" /\ m.messageId = r.id)
                    => IF Pending(r)
                       THEN /\ r2.settled
                            /\ r2.accepts = 1
                            /\ (m.error = None /\ m.transcript # None)
                                   => r2.value = JsString(m.transcript[1])
                       ELSE r2 = r
             /\ r.settled
                    => r2.settled /\ r2.value = r.value /\ r2.accepts = r.accepts
      ]_vars

\* C1 witness: a request took the text of a forged response, and the page's own
\* response for the same id was posted and dispatched after it
C1_Witness ==
    \E i \in DOMAIN requests : \E j \in DOMAIN jobs :
        /\ requests[i].settled
        /\ requests[i].value = JsString(Spoof)
        /\ requests[i].accepts = 1
        /\ jobs[j].messageId = requests[i].id
        /\ jobs[j].stage = "done"
        /\ queue = <<>>

\* C2: a request no response was accepted for stays pending, with its timer armed,
\* until the timeout callback runs; the callback runs no earlier than 15000 ms after
\* the request was issued and no later than TimerSlack after that, and settles the
\* promise with null.
C2_TimeoutBound ==
    [][\A i \in DOMAIN requests' :
          LET r2 == requests'[i]
          IN /\ Pending(r2)
                    => r2.timer /\ now' <= r2.issuedAt + 15000 + TimerSlack
             /\ (i \in DOMAIN requests /\ TimedOut(i))
                    => /\ now >= r2.issuedAt + 15000
                       /\ now <= r2.issuedAt + 15000 + TimerSlack
                       /\ Pending(requests[i]) => r2.settled /\ r2.value = JsNull
      ]_vars

\* C2 witness: the page script never loaded, no response was accepted, and the
\* request is settled with null by its timeout
C2_Witness ==
    \E i \in DOMAIN requests :
        /\ pageScript = "failed"
        /\ requests[i].accepts = 0
        /\ ~requests[i].timer
        /\ requests[i].settled /\ requests[i].value = JsNull
        /\ now >= requests[i].issuedAt + 15000

\* C3: the registered response listeners are exactly those of the requests whose
\* promise is still pending.
C3_ListenersArePending ==
    \A i \in DOMAIN requests : requests[i].listening <=> Pending(requests[i])

\* C3 witness: one request settled by a response and one by its timeout, neither
\* listening any more
C3_Witness ==
    \E i, k \in DOMAIN requests :
        /\ requests[i].accepts = 1 /\ requests[i].settled /\ ~requests[i].listening
        /\ requests[k].accepts = 0 /\ requests[k].settled /\ ~requests[k].listening
        /\ ~requests[k].timer

\* C4: two requests pending at the same time carry different correlation ids.
C4_DistinctPendingIds ==
    \A i, k \in DOMAIN requests :
        (i # k /\ Pending(requests[i]) /\ Pending(requests[k]))
            => requests[i].id # requests[k].id

\* C5: the dispatch of one message settles at most one pending request, the one
\* whose id it carries; every other pending request stays pending and listening.
C5_IndependentRequests ==
    [][\A i, k \in DOMAIN requests :
          (Dispatch /\ i # k /\ Settles(i) /\ Pending(requests[k]))
              => Pending(requests'[k]) /\ requests'[k].listening
      ]_vars

\* C6: the dispatch of a message whose source is another window changes no request:
\* it settles none and deregisters no listener.
C6_ForeignResponsesIgnored ==
    [][(Dispatch /\ Head(queue).source # Self) => requests' = requests]_vars

\* C7: the dispatch of a message that is from another window, or is not of type
\* GET_TRANSCRIPT, or carries no non-empty messageId starts no getTranscript
\* invocation, issues no network request and posts no result.
C7_PageIgnoresMalformed ==
    [][LET m == Head(queue)
       IN (Dispatch /\ (\/ m.source # Self
                        \/ m.type # "GET_TRANSCRIPT"
                        \/ m.messageId = None
                        \/ m.messageId = EmptyId))
              => jobs' = jobs /\ queue' = Tail(queue)
      ]_vars

\* C7 witness: the loaded page listener has returned without acting on a message
\* from another window and on one of another type, and has started one invocation
C7_Witness ==
    /\ pageScript = "loaded"
    /\ {"source", "type"} \subseteq ignored
    /\ Len(jobs) = 1

\* the TRANSCRIPT_RESULT messages of the page script that are in flight
PageResults ==
    {queue[k] : k \in {n \in DOMAIN queue :
                          queue[n].by = "page" /\ queue[n].type = "TRANSCRIPT_RESULT"}}

\* C8: every TRANSCRIPT_RESULT the page script posts carries either a non-empty
\* transcript and no error, or an error message and no transcript.
C8_ExactlyOneField ==
    \A m \in PageResults :
        \/ m.transcript # None /\ m.transcript[1] # <<>> /\ m.error = None
        \/ m.error # None /\ m.error[1] # "" /\ m.transcript = None

\* C8 witness: a success response and a failure response are in flight together
C8_Witness ==
    \E m1, m2 \in PageResults : m1.transcript # None /\ m2.error # None

\* the message each throw site of getTranscript gives its error, by step
StepMessages(step) ==
    CASE step = "getVideoId" -> {"No video ID found"}
      [] step = "getApiKey" -> {"Could not find API key"}
      [] step = "catalog" -> {"Failed to fetch", "Player API failed: 403",
                              "Unexpected token in JSON"}
      [] step = "tracks" -> {"No transcript available"}
      [] step = "payload" -> {"Failed to fetch", "The operation timed out.",
                              "Failed to fetch transcript: 404",
                              "Cannot read properties of undefined (reading 'substring')"}
      [] step = "empty" -> {"Empty transcript response"}
      [] step = "parse" -> {"Failed to parse transcript"}
      [] OTHER -> {}

\* C9: when a getTranscript invocation ends, the page script posts one
\* TRANSCRIPT_RESULT with the invocation's messageId; if a step threw, the message
\* carries that step's error text and no transcript, and the invocation is over;
\* a success response is posted only when no step threw.
C9_FailuresSurfaceUnchanged ==
    [][\A j \in DOMAIN jobs' :
          LET ended == /\ jobs'[j].stage = "done"
                       /\ j \in DOMAIN jobs => jobs[j].stage # "done"
              m == queue'[Len(queue')]
          IN ended
                => /\ queue' # <<>>
                   /\ m.by = "page" /\ m.type = "TRANSCRIPT_RESULT"
                   /\ m.messageId = jobs'[j].messageId
                   /\ jobs'[j].results = 1
                   /\ IF m.failed # ""
                      THEN /\ m.transcript = None
                           /\ m.error # None
                           /\ m.error[1] \in StepMessages(m.failed)
                      ELSE m.error = None /\ m.transcript # None
      ]_vars

\* C9 witness: an invocation that had issued both fetches ended with an error
\* response, which is in flight
C9_Witness ==
    \E j \in DOMAIN jobs : \E m \in PageResults :
        /\ jobs[j].stage = "done" /\ jobs[j].gets = 1
        /\ m.messageId = jobs[j].messageId
        /\ m.failed \in {"payload", "empty", "parse"}
        /\ m.error # None

\* C10: a step that settles a request by a response carrying an error, and a step
\* that settles it by its timeout, both settle it with null and write nothing to
\* the clipboard.
C10_ErrorAndTimeoutAlike ==
    [][\A i \in DOMAIN requests :
          LET m == Head(queue)
          IN (Settles(i) /\ (TimedOut(i) \/ (Dispatch /\ ErrorTruthy(m.error))))
                 => requests'[i].value = JsNull /\ clipboard' = clipboard
      ]_vars

\* C10 witness: one request settled with null by an error response, another with
\* null by its timeout
C10_Witness ==
    \E i, k \in DOMAIN requests :
        /\ requests[i].settled /\ requests[i].value = JsNull /\ requests[i].accepts = 1
        /\ requests[k].settled /\ requests[k].value = JsNull /\ requests[k].accepts = 0

\* the classes of section 7's taxonomy an extractor failure can fall in
Taxonomy ==
    {"ConfigurationUnavailable", "UpstreamUnavailable", "CaptionsUnavailable",
     "ParseFailure", "FetchTimeout"}

\* the class of the taxonomy an error text of getTranscript stands for: a missing API
\* key; a status that is not ok or an empty body; a catalog without tracks; a payload
\* without lines; the caption fetch exceeding its bound
Classify(msg) ==
    CASE msg = "Could not find API key" -> "ConfigurationUnavailable"
      [] msg \in {"Player API failed: 403", "Player API failed",
                  "Failed to fetch transcript: 404", "Failed to fetch transcript",
                  "Empty transcript response"} -> "UpstreamUnavailable"
      [] msg = "No transcript available" -> "CaptionsUnavailable"
      [] msg = "Failed to parse transcript" -> "ParseFailure"
      [] msg = "The operation timed out." -> "FetchTimeout"
      [] OTHER -> "Unclassified"

\* C11: every result of a getTranscript invocation is a non-empty transcript or an
\* error of one of the five classes of the taxonomy.
C11_ClassifiedOutcomes ==
    \A m \in PageResults :
        \/ m.error = None /\ m.transcript # None /\ m.transcript[1] # <<>>
        \/ m.error # None /\ Classify(m.error[1]) \in Taxonomy

\* C12: an invocation issues its caption GET only in the step in which its player
\* POST is answered with a player response that lists tracks, to the baseUrl of the
\* track selected from that list; it has issued none when it starts or while the
\* player POST is outstanding, and the player POST is over while the GET is
\* outstanding.
C12_FetchesInSequence ==
    [][\A j \in DOMAIN jobs' :
          LET job2 == jobs'[j]
              before == IF j \in DOMAIN jobs THEN jobs[j].gets ELSE 0
          IN /\ j \notin DOMAIN jobs => job2.gets = 0
             /\ job2.stage = "catalog" => job2.posts = 1 /\ job2.gets = 0
             /\ job2.stage = "payload" => job2.posts = 1 /\ job2.gets = 1
             /\ job2.gets > before
                    => /\ j \in DOMAIN jobs
                       /\ jobs[j].stage = "catalog" /\ jobs[j].posts = 1
                       /\ job2.stage = "payload"
                       /\ job2.url # None
                       /\ \E ans \in CatalogAnswers :
                             /\ ans.kind = "data" /\ Len(ans.tracks) > 0
                             /\ CatalogAnswer(j, ans)
                             /\ job2.url = selectTrack(ans.tracks).baseUrl
      ]_vars

\* C12 witness: an invocation whose player POST was answered waits for the caption
\* GET it issued to the manual track's baseUrl
C12_Witness ==
    \E j \in DOMAIN jobs :
        /\ jobs[j].stage = "payload"
        /\ jobs[j].posts = 1 /\ jobs[j].gets = 1
        /\ jobs[j].url = Some("urlB")

\* C13: an invocation issues at most one player POST and at most one caption GET,
\* and once it is over, by a failure or a success, it issues nothing more.
C13_NoRetries ==
    [][\A j \in DOMAIN jobs' :
          /\ jobs'[j].posts <= 1
          /\ jobs'[j].gets <= 1
          /\ (j \in DOMAIN jobs /\ jobs[j].stage = "done") => jobs'[j] = jobs[j]
      ]_vars

\* C13 witness: an invocation failed after its caption GET, its error response was
\* dispatched and settled the request with null, and it has issued one request of
\* each kind
C13_Witness ==
    \E j \in DOMAIN jobs : \E i \in DOMAIN requests :
        /\ jobs[j].stage = "done"
        /\ jobs[j].posts = 1 /\ jobs[j].gets = 1 /\ jobs[j].results = 1
        /\ requests[i].id = jobs[j].messageId
        /\ requests[i].accepts = 1 /\ requests[i].value = JsNull
        /\ queue = <<>>

\* the page listener acts on the message being dispatched
Heard == Dispatch /\ pageScript = "loaded" /\ PageAccepts(Head(queue))

\* C14: a request the page listener acts on while the page's configuration holds no
\* API key ends at once, without a network request, and its error response is in
\* the class ConfigurationUnavailable.
C14_NoKeyIsConfigurationUnavailable ==
    [][(Heard /\ ~apiKey)
          => LET job == jobs'[Len(jobs')]
                 m == queue'[Len(queue')]
             IN /\ Len(jobs') = Len(jobs) + 1
                /\ job.stage = "done" /\ job.posts = 0 /\ job.gets = 0
                /\ m.by = "page" /\ m.type = "TRANSCRIPT_RESULT"
                /\ m.messageId = Head(queue).messageId
                /\ m.transcript = None /\ m.error # None
                /\ Classify(m.error[1]) = "ConfigurationUnavailable"
      ]_vars

\* the error response that ends invocation j in this step, in class cls, without a
\* caption GET having been issued
FailsIn(j, cls) ==
    LET m == queue'[Len(queue')]
    IN /\ jobs'[j].stage = "done"
       /\ queue' = Append(queue, m)
       /\ m.by = "page" /\ m.type = "TRANSCRIPT_RESULT"
       /\ m.messageId = jobs[j].messageId
       /\ m.transcript = None /\ m.error # None
       /\ Classify(m.error[1]) = cls

\* C15: a player POST answered with a status that is not ok ends the invocation
\* with an UpstreamUnavailable error; one answered with a player response that has
\* no tracks (or no track list at all) ends it with a CaptionsUnavailable error; in
\* both cases the invocation has issued no caption GET.
C15_CatalogFailures ==
    [][\A j \in DOMAIN jobs : \A ans \in CatalogAnswers :
          CatalogAnswer(j, ans)
              => /\ ans.kind = "status"
                       => FailsIn(j, "UpstreamUnavailable") /\ jobs'[j].gets = 0
                 /\ (ans.kind = "data" /\ Len(ans.tracks) = 0)
                       => FailsIn(j, "CaptionsUnavailable") /\ jobs'[j].gets = 0
      ]_vars

\* C15 witness: the error responses of a player POST answered 403 and of one
\* answered without tracks are in flight, and no caption GET was issued
C15_Witness ==
    /\ \E m1, m2 \in PageResults :
          /\ m1.error = Some("Player API failed: 403")
          /\ m2.error = Some("No transcript available")
    /\ \A j \in DOMAIN jobs : jobs[j].posts = 1 /\ jobs[j].gets = 0

\* C16: a caption GET answered with a status that is not ok, or with an ok status
\* and a body of length zero, ends the invocation with an UpstreamUnavailable
\* error and no transcript; and no answer to the caption GET makes the invocation
\* post an empty transcript.
C16_PayloadFailures ==
    [][\A j \in DOMAIN jobs : \A ans \in PayloadAnswers :
          PayloadAnswer(j, ans)
              => LET m == queue'[Len(queue')]
                 IN /\ (ans.kind = "status" \/ (ans.kind = "body" /\ Len(ans.body) = 0))
                          => FailsIn(j, "UpstreamUnavailable")
                    /\ m.transcript # None => m.transcript[1] # <<>>
      ]_vars

\* C16 witness: the error responses of a caption GET answered 404 and of one
\* answered with an empty body are in flight
C16_Witness ==
    \E m1, m2 \in PageResults :
        /\ m1.error = Some("Failed to fetch transcript: 404")
        /\ m2.error = Some("Empty transcript response")

\* C17: a caption GET answered with a non-empty body in which the parser finds no
\* line ends the invocation with a ParseFailure error: no transcript is posted, and
\* the error is not the one of a catalog without tracks.
C17_NoLinesIsParseFailure ==
    [][\A j \in DOMAIN jobs : \A ans \in PayloadAnswers :
          (/\ PayloadAnswer(j, ans)
           /\ ans.kind = "body" /\ Len(ans.body) > 0
           /\ XmlLines(ans.body, 1) = <<>>)
              => LET m == queue'[Len(queue')]
                 IN /\ FailsIn(j, "ParseFailure")
                    /\ m.error # Some("No transcript available")
      ]_vars

\* C17 witness: an invocation that issued its caption GET is over and its error
\* response 'Failed to parse transcript' is in flight
C17_Witness ==
    \E j \in DOMAIN jobs : \E m \in PageResults :
        /\ jobs[j].stage = "done" /\ jobs[j].gets = 1
        /\ m.messageId = jobs[j].messageId
        /\ m.failed = "parse"
        /\ m.error = Some("Failed to parse transcript")

\* C18: an invocation waits for its caption GET no longer than 15000 ms (and the
\* TimerSlack of the timer task): the abort comes no earlier than 15000 ms after
\* the GET was issued and ends the invocation with a FetchTimeout error response.
\* Nothing but the network's answer ends the wait for the player POST.
C18_PayloadFetchBounded ==
    [][\A j \in DOMAIN jobs' :
          LET job2 == jobs'[j]
          IN /\ job2.stage = "payload"
                    => now' <= job2.fetchStart + 15000 + TimerSlack
             /\ (j \in DOMAIN jobs /\ PayloadAbort(j))
                    => /\ now >= jobs[j].fetchStart + 15000
                       /\ FailsIn(j, "FetchTimeout")
             /\ (j \in DOMAIN jobs /\ jobs[j].stage = "catalog" /\ job2.stage # "catalog")
                    => \E ans \in CatalogAnswers : CatalogAnswer(j, ans)
      ]_vars

\* C18 witness: the caption GET of one invocation was aborted and its error
\* response is in flight, while another invocation still waits for its player POST
\* more than 15000 ms after the first request
C18_Witness ==
    \E j, k \in DOMAIN jobs : \E m \in PageResults :
        /\ jobs[j].stage = "done" /\ jobs[j].gets = 1
        /\ m.messageId = jobs[j].messageId
        /\ m.error = Some("The operation timed out.")
        /\ jobs[k].stage = "catalog"
        /\ now >= 15000

\* the timeout of request r elapsed with no response accepted
Abandoned(r) == ~r.timer /\ r.accepts = 0

\* C19: the timeout callback of a request leaves every getTranscript invocation
\* and every message in flight as they are; afterwards the request is settled with
\* null and not listening, and the dispatch of a response with its id changes
\* nothing of it and writes nothing to the clipboard on its account.
C19_LateResponseIgnored ==
    [][\A i \in DOMAIN requests :
          LET r == requests[i]
              m == Head(queue)
          IN /\ TimedOut(i) => jobs' = jobs /\ queue' = queue
             /\ Abandoned(requests'[i])
                    => requests'[i].value = JsNull /\ ~requests'[i].listening
             /\ (/\ Dispatch /\ Abandoned(r)
                 /\ m.type = "TRANSCRIPT_RESULT" /\ m.messageId = r.id)
                    => /\ requests'[i] = r
                       /\ clipboard' # clipboard
                              => \E k \in DOMAIN requests : k # i /\ Settles(k)
      ]_vars

\* C19 witness: a request timed out before its invocation was over; the invocation
\* went on to the end of its caption GET, its response was dispatched, and the
\* request is still settled with null, the clipboard empty
C19_Witness ==
    \E i \in DOMAIN requests : \E j \in DOMAIN jobs :
        /\ Abandoned(requests[i])
        /\ requests[i].value = JsNull
        /\ jobs[j].messageId = requests[i].id
        /\ jobs[j].stage = "done" /\ jobs[j].gets = 1
        /\ Len(requests) = 1 /\ Len(jobs) = 1 /\ injected = 0
        /\ queue = <<>>
        /\ clipboard = None
        /\ now >= requests[i].issuedAt + 15000

\* C20: every request issued is eventually settled, by a response or by its
\* timeout, whether the page script loads or not, whether its invocation ends or
\* not, and whatever else is posted on the window.
C20_EveryRequestSettles ==
    \A i \in 1..MaxPosts :
        [](i \in DOMAIN requests => <>(i \in DOMAIN requests /\ requests[i].settled))

\* C20 witness: the page script failed to load, no invocation ever started, and
\* the request is settled
C20_Witness ==
    \E i \in DOMAIN requests :
        /\ pageScript = "failed"
        /\ jobs = <<>>
        /\ queue = <<>>
        /\ requests[i].settled
        /\ ~requests[i].timer

\* the kind of track t is not the sentinel of auto-generated captions
Manual(t) == t.kind # Some("asr")

\* C21: for a non-empty track list selectTrack returns the first track, in list
\* order, whose kind is not 'asr' when there is one, and the first track of the
\* list otherwise.
C21_SelectsFirstManual ==
    Returned("selectTrack")
        => LET tracks == call.arg.tracks
               t == call.ret[1]
           IN IF \E i \in DOMAIN tracks : Manual(tracks[i])
              THEN \E i \in DOMAIN tracks :
                      /\ t = tracks[i]
                      /\ Manual(tracks[i])
                      /\ \A k \in 1..(i - 1) : ~Manual(tracks[k])
              ELSE t = tracks[1]

\* C21 witness: from the list [asr, '', forced] the track of kind '' was selected
C21_Witness ==
    /\ Returned("selectTrack")
    /\ call.arg.tracks = <<Track(Some("asr"), Some(1)), Track(Some(""), Some(2)),
                           Track(Some("forced"), Some(3))>>
    /\ call.ret = Some(Track(Some(""), Some(2)))

\* the entries of a list that stand for a line, in the list's order
WithText(entries) == SelectSeq(entries, LAMBDA e : e.line # <<>>)

\* C22: parseTranscriptXml called with a payload of well-formed entries returns
\* one line for each entry whose text is not empty, in the payload's order, made
\* of the entry's start offset as a timestamp and its decoded text; entries whose
\* text is empty after decoding and trimming give no line, blank or otherwise.
C22_OneLinePerEntry ==
    Returned("parseTranscriptXml")
        => LET kept == WithText(call.arg.entries)
               lines == Split(call.ret[1].text)
           IN IF kept = <<>>
              THEN call.ret[1].text = <<>>
              ELSE /\ Len(lines) = Len(kept)
                   /\ \A i \in 1..Len(kept) : lines[i] = kept[i].line

\* C22 witness: a payload of three entries with text, the first two out of offset
\* order, was parsed into three lines
C22_Witness ==
    /\ Returned("parseTranscriptXml")
    /\ Len(call.arg.entries) = 3
    /\ Len(WithText(call.arg.entries)) = 3
    /\ call.arg.entries[1].tStartMs > call.arg.entries[2].tStartMs
    /\ Len(Split(call.ret[1].text)) = 3

\* C23: parseTranscriptJson pushes no line for an event without a segment list
\* and none for an event whose segment texts, concatenated in list order and
\* trimmed, are empty; for every other event it pushes exactly one line, in event
\* order.
C23_OneLinePerEvent ==
    Returned("parseTranscriptJson")
        => LET events == IF call.arg.events = None THEN <<>> ELSE call.arg.events[1]
               kept == WithText(events)
               lines == call.ret[1].lines
           IN /\ Len(lines) = Len(kept)
              /\ \A i \in 1..Len(kept) : lines[i] = kept[i].line
              /\ \A i \in 1..Len(events) :
                    (events[i].segs = None \/ Trim(SegText(events[i].segs[1])) = <<>>)
                        => events[i].line = <<>>

\* C23 witness: a payload whose first event has no segment list, whose second has
\* segments of white space only and whose third has text was parsed into one line
C23_Witness ==
    /\ Returned("parseTranscriptJson")
    /\ call.arg.events # None
    /\ LET events == call.arg.events[1]
       IN /\ Len(events) = 3
          /\ events[1].segs = None
          /\ events[2].segs # None /\ events[2].line = <<>>
          /\ events[3].line # <<>>
          /\ call.ret[1].lines = <<events[3].line>>

\* C24: parseTranscriptXml called with captions in the tag-delimited format and
\* parseTranscriptJson called with the same captions in the segment-event format
\* return the same text.
C24_ParsersAgree ==
    Returned("parse") => call.ret[1].xml = call.ret[1].json

\* the transcript of the caption 'Hi' at 1000 ms
HelloTranscript ==
    Str(<<"[", "0", "0", ":", "0", "1", "]", " ", "H", "i">>)

\* C25: a caption GET answered with the caption 'Hi' at 1000 ms, in the
\* tag-delimited or in the segment-event format, makes the invocation post the
\* transcript '[00:01] Hi', not an error.
C25_BothEncodingsParsed ==
    [][\A j \in DOMAIN jobs : \A ans \in PayloadAnswers :
          (PayloadAnswer(j, ans) /\ ans.kind = "body" /\ ans.body \in {XmlHello, Json3Hello})
              => LET m == queue'[Len(queue')]
                 IN /\ m.error = None
                    /\ m.transcript = Some(HelloTranscript)
      ]_vars

\* C26: no line pushed by parseTranscriptXml or by parseTranscriptJson holds a
\* newline character.
C26_NoNewlineInLine ==
    (Returned("parseTranscriptXml") \/ Returned("parseTranscriptJson"))
        => \A i \in 1..Len(call.ret[1].lines) :
              \A k \in 1..Len(call.ret[1].lines[i]) : call.ret[1].lines[i][k] # 10

\* C27: a transcript, the non-empty text parseTranscriptXml returns, neither
\* starts nor ends with a newline and, split at its newlines, is the sequence of
\* the lines pushed: as many, in the same order, each with the same text.
C27_RoundTrip ==
    (Returned("parseTranscriptXml") /\ call.ret[1].text # <<>>)
        => LET text == call.ret[1].text
               lines == call.ret[1].lines
           IN /\ text[1] # 10 /\ text[Len(text)] # 10
              /\ Split(text) = lines

\* C27 witness: three lines were pushed, one of them for a text with a newline in
\* it, and the text returned splits into three lines
C27_Witness ==
    /\ Returned("parseTranscriptXml")
    /\ Len(call.ret[1].lines) = 3
    /\ \E i \in 1..3 : \E k \in 1..Len(call.arg.entries[i].raw) :
          call.arg.entries[i].raw[k] = 10
    /\ Len(Split(call.ret[1].text)) = 3


\* a field of a timestamp, less than 100, in two digits
TwoDigits(n) == <<48 + (n \div 10), 48 + (n % 10)>>
\* the hours of a timestamp, less than 100, unpadded
Unpadded(n) == IF n < 10 THEN <<48 + n>> ELSE TwoDigits(n)

EntityAt(s, i) ==
    \/ \E k \in 1..Len(Entities) : StartsWithAt(s, Entities[k][1], i)
    \/ LET e == RunEnd(s, i + 2, Digits)
       IN StartsWithAt(s, AmpHash, i) /\ e > i + 2 /\ e <= Len(s) /\ s[e] = Semicolon
    \/ LET e == RunEnd(s, i + 3, HexDigits)
       IN StartsWithAt(s, AmpHashX, i) /\ e > i + 3 /\ e <= Len(s) /\ s[e] = Semicolon
HoldsEntity(s) == \E i \in 1..Len(s) : EntityAt(s, i)

\* the second of two calls has returned: call.arg.text is the text the first
\* returned, call.ret[1] what the second made of it
DecodedTwice == Returned("decodeHtmlEntities") /\ call.arg.first # None
DecodedOnce == Returned("decodeHtmlEntities") /\ call.arg.first = None

\* C29 as stated: decodeHtmlEntities, applied to text it has already decoded,
\* returns that text unchanged, for every input text.
C29_IdempotentAlways ==
    DecodedTwice => call.ret[1] = call.arg.text

\* the listed entities and their characters
ListedEntities == <<
    <<Str(<<"&", "a", "m", "p", ";">>), Str(<<"&">>)>>,
    <<Str(<<"&", "l", "t", ";">>), Str(<<"<">>)>>,
    <<Str(<<"&", "g", "t", ";">>), Str(<<">">>)>>,
    <<Str(<<"&", "q", "u", "o", "t", ";">>), Str(<<"\"">>)>>,
    <<Str(<<"&", "#", "3", "9", ";">>), Str(<<"'">>)>>,
    <<Str(<<"&", "#", "6", "5", ";">>), Str(<<"A">>)>>,
    <<Str(<<"&", "#", "x", "4", "1", ";">>), Str(<<"A">>)>> >>

\* C29, amended: decodeHtmlEntities, applied to text it has already decoded,
\* returns that text unchanged whenever the decoded text holds no entity; and it
\* maps each of &amp; &lt; &gt; &quot; &#39; &#65; &#x41; to its character
\* & < > " ' A A.
C29_IdempotentOnDecoded ==
    /\ (DecodedTwice /\ ~HoldsEntity(call.arg.text)) => call.ret[1] = call.arg.text
    /\ DecodedOnce =>
          \A k \in 1..Len(ListedEntities) :
              call.arg.text = ListedEntities[k][1] => call.ret[1] = ListedEntities[k][2]

\* C29 witness: 'a &amp; b' was decoded to 'a & b', which holds an ampersand but
\* no entity, and the second call has returned it unchanged.
C29_Witness ==
    /\ DecodedTwice
    /\ call.arg.first[1] = Str(<<"a", " ", "&", "a", "m", "p", ";", " ", "b">>)
    /\ call.arg.text = Str(<<"a", " ", "&", " ", "b">>)
    /\ call.ret[1] = call.arg.text

\* the seconds a timestamp stands for, read field by field: h:mm:ss or mm:ss
RECURSIVE StampValue(_, _, _)
StampValue(stamp, fields, field) ==
    IF stamp = <<>> THEN fields * 60 + field
    ELSE IF stamp[1] = 58
         THEN StampValue(Tail(stamp), fields * 60 + field, 0)
         ELSE StampValue(Tail(stamp), fields, field * 10 + (stamp[1] - 48))

\* the seconds of the timestamp a line starts with, between '[' and the first ']'
StampSeconds(line) ==
    StampValue(SubSeq(line, 2, RunEnd(line, 1, CodeUnits \ {93}) - 1), 0, 0)

NonDecreasing(ns) == \A i \in 1..Len(ns) - 1 : ns[i] <= ns[i + 1]

\* C30: parseTranscriptXml emits its lines in the payload's order, neither sorted
\* nor merged: the timestamps of the lines are, one for one and in order, the
\* start offsets of the payload's entries with text, in whole seconds; so when
\* the start offsets of the payload's entries do not decrease, the timestamps of
\* consecutive lines do not decrease either.
C30_PayloadOrder ==
    Returned("parseTranscriptXml")
        => LET entries == call.arg.entries
               kept == WithText(entries)
               lines == call.ret[1].lines
               stamps == [i \in 1..Len(lines) |-> StampSeconds(lines[i])]
           IN /\ Len(lines) = Len(kept)
              /\ \A i \in 1..Len(lines) : stamps[i] = kept[i].tStartMs \div 1000
              /\ NonDecreasing([i \in 1..Len(entries) |-> entries[i].tStartMs])
                    => NonDecreasing(stamps)

\* C30 witness: a payload whose start offsets do not decrease, two entries at one
\* second and the last at one hour, was parsed into three lines stamped 00:01,
\* 00:01 and 1:00:00.
C30_Witness ==
    /\ Returned("parseTranscriptXml")
    /\ Len(call.arg.entries) = 3
    /\ call.arg.entries[1].tStartMs = 1000
    /\ call.arg.entries[2].tStartMs = 1000
    /\ call.arg.entries[3].tStartMs = 3600000
    /\ Len(call.ret[1].lines) = 3
    /\ StampSeconds(call.ret[1].lines[1]) = 1
    /\ StampSeconds(call.ret[1].lines[2]) = 1
    /\ StampSeconds(call.ret[1].lines[3]) = 3600

\* the transcript of the captions 'Yo' at 2000 ms
YoTranscript == Str(<<"[", "0", "0", ":", "0", "2", "]", " ", "Y", "o">>)

\* the transcript of the captions upstream holds for a video
TranscriptOf(videoId) ==
    IF videoId = Some("videoB") THEN YoTranscript
    ELSE HelloTranscript

\* C31: nothing is kept from one getTranscript invocation to the next: an
\* invocation reads the video id of the location current when it starts and
\* keeps it whatever navigation follows, and the transcript it posts is the one
\* of the captions its own fetches brought for that video, never the transcript
\* of a video an earlier invocation read.
C31_NothingCached ==
    [][/\ Len(jobs') = Len(jobs) + 1 => jobs'[Len(jobs')].videoId = location.v
       /\ \A j \in DOMAIN jobs :
             /\ jobs'[j].videoId = jobs[j].videoId
             /\ ( /\ jobs[j].stage = "payload" /\ jobs'[j].stage = "done"
                  /\ queue'[Len(queue')].transcript # None )
                   => queue'[Len(queue')].transcript = Some(TranscriptOf(jobs[j].videoId))
      ]_vars

\* C31 witness: a request on videoA was answered, the page was navigated to
\* videoB, and the request issued there read videoB and posted videoB's
\* transcript.
C31_Witness ==
    /\ Len(jobs) = 2
    /\ jobs[1].videoId = Some("videoA") /\ jobs[1].results = 1
    /\ jobs[2].videoId = Some("videoB") /\ jobs[2].results = 1
    /\ jobs[1].messageId # jobs[2].messageId
    /\ location.v = Some("videoB")
    /\ \E k \in DOMAIN queue :
          /\ queue[k].by = "page" /\ queue[k].messageId = jobs[2].messageId
          /\ queue[k].transcript = Some(YoTranscript)

\* C32: a handleClick call passes a text to clipboard.writeText exactly when its
\* request resolved with a transcript, and the text is that transcript; when the
\* request resolved to no transcript (error response or timeout) it writes
\* nothing; the call ends in its try block or in its catch, a refused write
\* included; and the clipboard changes only to the text a call writes in that
\* step.
C32_CopiesExactlyTheTranscript ==
    /\ [](\A i \in DOMAIN clicks :
            IF Pending(requests[i])
            THEN clicks[i] = NewClick
            ELSE IF Truthy(requests[i].value)
                 THEN /\ clicks[i].wrote = Some(requests[i].value.str)
                      /\ clicks[i].at \in {"copied", "caught"}
                 ELSE /\ clicks[i].wrote = None
                      /\ clicks[i].at = "skipped")
    /\ [][clipboard' # clipboard
             => \E i \in DOMAIN clicks :
                   /\ clicks[i].at = "awaiting" /\ clicks'[i].at = "copied"
                   /\ clipboard' = clicks'[i].wrote]_vars

\* C32 witness: of two clicks, one request resolved with the page's transcript,
\* which was written to the clipboard, and the other resolved to null and wrote
\* nothing.
C32_Witness ==
    /\ Len(clicks) = 2
    /\ \E i, k \in DOMAIN clicks :
          /\ clicks[i].at = "copied" /\ clipboard = clicks[i].wrote
          /\ clicks[i].wrote = Some(HelloTranscript)
          /\ clicks[k].at = "skipped" /\ requests[k].value = JsNull

\* the location is a watch page and the player's controls are in the document
ControlsOnWatchPage == isWatchPage(location) /\ dom.controls

\* C33: on a watch page whose player controls have loaded, reached by a page
\* load or by in-page navigation, the control button eventually is present
\* (unless the page is left or the controls go away first).
C33_ButtonAppears ==
    ControlsOnWatchPage ~> (dom.buttons > 0 \/ ~ControlsOnWatchPage)

\* C34: the button is put into the document only while the location is a watch
\* page, and a page load at a location that is not a watch page creates no
\* button.
C34_InsertedOnWatchPagesOnly ==
    /\ [](~dom.observing => dom.buttons = 0)
    /\ [][/\ dom'.buttons > dom.buttons => isWatchPage(location')
          /\ (Load /\ ~isWatchPage(location')) => dom'.buttons = 0]_vars

\* C34 witness: after in-page navigation from a watch page to another page, the
\* controls arrived there and no button was put in; a re-injection timer is
\* still pending.
C34_Witness ==
    /\ ~isWatchPage(location)
    /\ dom.observing /\ dom.controls /\ dom.buttons = 0
    /\ dom.timers > 0

\* C37: the document never holds more than one control button.
C37_AtMostOneButton == dom.buttons <= 1

\* C37 witness: the button is in place on a watch page reached by in-page
\* navigation, with both observers registered and two re-injection timers
\* pending.
C37_Witness ==
    /\ isWatchPage(location)
    /\ dom.observing /\ dom.buttons = 1
    /\ dom.timers = 2

\* the TRANSCRIPT_RESULT the page script posts in this step, if any
PostedResults ==
    IF Len(queue') >= Len(queue) /\ queue' # queue
    THEN {m \in {queue'[Len(queue')]} : m.by = "page" /\ m.type = "TRANSCRIPT_RESULT"}
    ELSE {}

\* the getTranscript call of invocation j settles in this step
Ended(j) ==
    /\ jobs'[j].stage = "done"
    /\ j \in DOMAIN jobs => jobs[j].stage # "done"

C36_LateTimerIsNoOp ==
    [][\A i \in DOMAIN requests :
          /\ (requests'[i].accepts > requests[i].accepts /\ requests[i].timer)
                => requests'[i].timer
          /\ (TimedOut(i) /\ requests[i].settled)
                => /\ requests'[i].settled
                   /\ requests'[i].value = requests[i].value
                   /\ requests'[i].accepts = requests[i].accepts
                   /\ clicks' = clicks
                   /\ clipboard' = clipboard
                   /\ \A k \in DOMAIN requests \ {i} : requests'[k] = requests[k]
      ]_vars

\* C36 witness: the first of two requests was resolved with a transcript that was
\* copied; its timer has fired since, and it still holds the transcript, while
\* the second request is still pending with its listener and its timer.
C36_Witness ==
    /\ Len(requests) = 2
    /\ requests[1].settled /\ Truthy(requests[1].value)
    /\ requests[1].accepts = 1 /\ ~requests[1].timer
    /\ clipboard = Some(requests[1].value.str)
    /\ Pending(requests[2]) /\ requests[2].listening /\ requests[2].timer

\* the end of the entity that starts at position 1 of s and the number it
\* carries: <<e, n>> for &#digits; or &#xhex; ending at e, <<0, 0>> for none
NumericEntity(s) ==
    LET d == RunEnd(s, 3, Digits)
        h == RunEnd(s, 4, HexDigits)
    IN IF StartsWithAt(s, AmpHash, 1) /\ d > 3 /\ d <= Len(s) /\ s[d] = Semicolon
       THEN <<d, DecValue(SubSeq(s, 3, d - 1))>>
       ELSE IF StartsWithAt(s, AmpHashX, 1) /\ h > 4 /\ h <= Len(s) /\ s[h] = Semicolon
            THEN <<h, HexNumber(SubSeq(s, 4, h - 1))>>
            ELSE <<0, 0>>

\* decoding in one pass from left to right: an entity is replaced by its
\* character, a numeric one by the code unit String.fromCharCode gives its
\* number, and the scan goes on behind it
RECURSIVE DecodeOnce(_)
DecodeOnce(s) ==
    IF s = <<>> THEN <<>>
    ELSE LET named == {k \in 1..Len(Entities) : StartsWithAt(s, Entities[k][1], 1)}
             num == NumericEntity(s)
         IN IF named # {}
            THEN LET k == CHOOSE k \in named : TRUE
                 IN Entities[k][2] \o DecodeOnce(Drop(s, Len(Entities[k][1]) + 1))
            ELSE IF num[1] > 0
                 THEN FromCharCode(num[2]) \o DecodeOnce(Drop(s, num[1] + 1))
                 ELSE <<s[1]>> \o DecodeOnce(Drop(s, 2))

\* C38: decodeHtmlEntities decodes in a single pass: every entity of the input is
\* decoded once, and a character that comes out of an entity is not read again
\* as the start of another ('&amp;lt;' gives '&lt;', not '<').
C38_SinglePass ==
    DecodedOnce => call.ret[1] = DecodeOnce(call.arg.text)

\* the UTF-16 code units of the character with code point n
Utf16(n) ==
    IF n < 65536 THEN <<n>>
    ELSE <<55296 + ((n - 65536) \div 1024), 56320 + ((n - 65536) % 1024)>>

\* C39: a text that is one numeric entity, &#N; or &#xH;, decodes to the
\* character whose code point is the entity's number, above 65535 too.
C39_NumericEntities ==
    (DecodedOnce /\ NumericEntity(call.arg.text)[1] = Len(call.arg.text)
                 /\ call.arg.text # <<>>)
        => call.ret[1] = Utf16(NumericEntity(call.arg.text)[2])

====
